---- MODULE Spec2Model ----
(***************************************************************************)
(* DeepRepoSlides: the repository indexing engine (analyzer-core) and the  *)
(* concurrent section-generation pipeline (site-mdbook, slides).           *)
(*                                                                         *)
(*   Spec        the section pipeline: MdBookBuilder::build_wiki,          *)
(*               SlideBuilder::build_marp, SlideBuilder::build_mdbook_reveal*)
(*   SpecLongLists  Spec started with longer section lists and at most one *)
(*               module                                                    *)
(*   SpecFanout  the module fan-out of build_wiki with its semaphore, the  *)
(*               module tasks counted instead of named                     *)
(*   SpecWalk    Analyzer::analyze_repo over a bounded tree                *)
(*   SpecRegistry  McpServer::index_repo and the registry of builds        *)
(*   SpecSearch  Index::search over a bounded Index                        *)
(*   SpecExtract, SpecClassify, SpecEntrypoints  the pure functions of the *)
(*               analyzer applied to bounded inputs                        *)
(*   SpecServer  McpServer::serve, the request loop                        *)
(*   SpecPublish Publisher::commit_to_branch                               *)
(*   SpecFanoutLive  SpecFanout with the fairness of the tokio scheduler   *)
(***************************************************************************)
EXTENDS Integers, Sequences, FiniteSets, TLC

\* ------------------------------------------------------------------ bounds
MaxSections == 2
MaxModules == 2
\* module records beyond the number of semaphore permits (SpecFanout)
MaxOverCap == 2
\* entries of the scanned tree (SpecWalk)
MaxEntries == 3
\* index_repo calls and clock ticks (SpecRegistry)
MaxCalls == 3
MaxTicks == 3
\* files of the searched Index, the largest `k`, and search calls (SpecSearch)
MaxSearchFiles == 3
MaxK == 3
MaxSearchCalls == 2
\* statements of an extracted text (SpecExtract)
MaxStmts == 3
\* lines the client sends to the server (SpecServer)
MaxLines == 3
\* sections of a run of SpecLongLists
MaxListedSections == 3
\* configured entry-point hints (SpecEntrypoints)
MaxHints == 2

\* ------------------------------------------------------- program constants
\* tokio::sync::Semaphore::new(50) in build_wiki
ModuleSemaphorePermits == 50

VARIABLES
    \* ---- the section pipeline (Spec)
    builder,          \* which entry point runs: "wiki" | "marp" | "reveal"
    sections,         \* the caller's `toc` / `sections` argument
    index,            \* the Index handed to the run
    pc,               \* position of the build function's own body
    secState,         \* per section task: "unspawned" | "running" | "ok" | "err" | "panic"
    secIndex,         \* per section task: the Index clone it was spawned with
    section_handles,  \* JoinHandles pushed so far, in push order (task numbers)
    modState,         \* per module task: "unspawned" | "waiting" | "running" | "ok" | "err" | "panic"
    module_handles,   \* JoinHandles of the module tasks, in push order
    permits,          \* permits available in the Arc<Semaphore>
    awaitIdx,         \* handles already consumed by the current `for handle in ...` loop
    modules_content,  \* fragments pushed to modules_content, in push order
    marp_content,     \* section contents pushed to marp_content, in push order
    pages,            \* build_wiki's page counter
    out_dir,          \* files present in the output directory: name -> content
    result,           \* the value returned to the caller
    secDone,          \* section tasks in the order in which they ended
    modDone,          \* module tasks in the order in which they ended
    \* ---- the module fan-out, tasks counted (SpecFanout)
    fanModules,       \* index.modules.len()
    fanPc,            \* "spawn" | "await" | "collected"
    fanSpawned,       \* module tasks spawned so far (module_handles.len())
    fanWaiting,       \* spawned tasks waiting in semaphore.acquire()
    fanRunning,       \* tasks holding a permit, inside generate_module_content_detailed
    fanEnded,         \* tasks that returned or panicked
    fanPermits,       \* permits available in the semaphore
    \* ---- Analyzer::analyze_repo (SpecWalk)
    tree,             \* what WalkDir yields under the root, in iteration order
    config,           \* the Config passed to analyze_repo
    walkPos,          \* entries of the walk consumed so far
    files,            \* Vec<FileInfo>
    modules,          \* Vec<ModuleInfo>
    dependencies,     \* HashMap<String, Vec<String>>
    languages,        \* HashSet<String>
    walkResult,       \* what analyze_repo returned
    \* ---- McpServer::index_repo (SpecRegistry)
    indexes,          \* HashMap<String, Index>: index_id -> Index
    clock,            \* Utc::now(), in ticks
    regCalls,         \* index_repo calls made so far
    returned,         \* every IndexRepoResult returned, with the Index it was built from
    fetched,          \* what the last `indexes.get(&args.index_id)` gave
    \* ---- Index::search (SpecSearch)
    searchFiles,      \* self.files of the searched Index
    searchQuery,      \* `query`
    searchK,          \* `k`
    searchHits,       \* the hits of the last call
    searchPrev,       \* the hits of the call before it
    searchCalls,      \* search calls made so far
    searchPanic,      \* whether the last call panicked instead of returning
    \* ---- a pure function applied to an input (SpecExtract, SpecClassify, SpecEntrypoints)
    fnInput,          \* the arguments
    fnOutput,         \* None before the call, Some(result) after it
    \* ---- McpServer::serve (SpecServer)
    stdin,            \* the input lines not read yet
    stdout_lines,     \* the response lines written to stdout
    srvPc,            \* "select" | "handling" | "ended" | "failed"
    srvRead,          \* input lines read so far
    srvLine,          \* the line being handled
    \* ---- Publisher::commit_to_branch (SpecPublish)
    branch,           \* the `branch` argument
    branches,         \* the branches of the repository
    head,             \* the branch that is checked out
    pubPc,            \* position in commit_to_branch
    pubLog,           \* the git commands that ran and changed something, with the head they ran on
    pubResult         \* what commit_to_branch returned

pipeVars == <<builder, sections, index, pc, secState, secIndex, section_handles,
              modState, module_handles, permits, awaitIdx, modules_content,
              marp_content, pages, out_dir, result, secDone, modDone>>

fanVars == <<fanModules, fanPc, fanSpawned, fanWaiting, fanRunning, fanEnded, fanPermits>>

walkVars == <<tree, config, walkPos, files, modules, dependencies, languages, walkResult>>

regVars == <<indexes, clock, regCalls, returned, fetched>>

searchVars == <<searchFiles, searchQuery, searchK, searchHits, searchPrev, searchCalls,
                searchPanic>>

fnVars == <<fnInput, fnOutput>>

srvVars == <<stdin, stdout_lines, srvPc, srvRead, srvLine>>

pubVars == <<branch, branches, head, pubPc, pubLog, pubResult>>

\* ----------------------------------------------------------------- helpers
Range(s) == {s[i] : i \in 1..Len(s)}

SeqsUpTo(S, n) == UNION {[1..k -> S] : k \in 0..n}

Builders == {"wiki", "marp", "reveal"}

\* section names a caller may pass: two the generators know, one of them the
\* per-module section, and one they do not know
SectionNames == {"overview", "modules", "extra"}

Finished == {"ok", "err", "panic"}

NoFiles == [n \in {} |-> 0]

WriteFile(fs, name, content) ==
    [n \in (DOMAIN fs) \cup {name} |-> IF n = name THEN content ELSE fs[n]]

\* the result record of a run; a failure names its kind and where it arose
Pending == [status |-> "pending"]
Failure(kind, at) == [status |-> "err", kind |-> kind, at |-> at]

\* ------------------------------------------------- text the builders emit
\* get_section_name: the chapter title of a known section, else the name itself
\* (titles transliterated: Gaiyou, Akitekucha, Mojuru, Furo, Depuroi)
get_section_name(section) ==
    CASE section = "overview" -> "Gaiyou"
      [] section = "architecture" -> "Akitekucha"
      [] section = "modules" -> "Mojuru"
      [] section = "flows" -> "Furo"
      [] section = "deploy" -> "Depuroi"
      [] section = "faq" -> "FAQ"
      [] OTHER -> section

\* a file name of the output directory, as <<stem, extension>>
BookToml == <<"book", "toml">>
SummaryMd == <<"SUMMARY", "md">>
ModulesMd == <<"modules", "md">>
SlidesMd == <<"slides", "md">>

\* format!("{}.md", section)
FileOf(section) == <<section, "md">>

\* generate_summary / generate_reveal_summary: one link line per toc entry, in toc order
generate_summary(toc) ==
    [i \in 1..Len(toc) |-> [title |-> get_section_name(toc[i]), file |-> FileOf(toc[i])]]

\* what a section task renders from its Index clone: the generators read the
\* Index's stats and module list, an unknown name yields the placeholder page
SectionText(b, idx, section) ==
    IF b = "wiki"
    THEN IF section \in {"overview", "architecture", "flows", "deploy", "faq"}
         THEN [section |-> section, kind |-> "chapter", modules |-> Len(idx.modules)]
         ELSE [section |-> section, kind |-> "placeholder", modules |-> 0]
    ELSE IF section \in {"overview", "architecture", "modules", "flows", "deploy"}
         THEN [section |-> section, kind |-> "slide", modules |-> Len(idx.modules)]
         ELSE [section |-> section, kind |-> "placeholder", modules |-> 0]

\* generate_module_content_detailed: the fragment of one ModuleRecord
ModuleFragment(idx, module) == [heading |-> module.name, file |-> module.path]

\* the "module list" head of modules.md, built before the fan-out
ModulesHeader(idx) == [i \in 1..Len(idx.modules) |-> idx.modules[i].name]

\* ------------------------------------------------------------- the inputs
ModuleRecordOf(i) == [path |-> <<"src", i>>, name |-> <<"mod", i>>]

Indexes == {[modules |-> [i \in 1..n |-> ModuleRecordOf(i)]] : n \in 0..MaxModules}

\* the state at the entry of a build function called with one of the section
\* lists and one of the Indexes given
PipeStart(section_lists, given_indexes) ==
    /\ builder \in Builders
    /\ sections \in section_lists
    /\ index \in given_indexes
    /\ pc = "start"
    /\ secState = [i \in 1..Len(sections) |-> "unspawned"]
    /\ secIndex = [i \in 1..Len(sections) |-> index]
    /\ section_handles = <<>>
    /\ modState = [j \in 1..Len(index.modules) |-> "unspawned"]
    /\ module_handles = <<>>
    /\ permits = ModuleSemaphorePermits
    /\ awaitIdx = 0
    /\ modules_content = <<>>
    /\ marp_content = <<>>
    /\ pages = 0
    /\ out_dir = NoFiles
    /\ result = Pending
    /\ secDone = <<>>
    /\ modDone = <<>>

PipeInit == PipeStart(SeqsUpTo(SectionNames, MaxSections), Indexes)

\* runs with longer section lists over an Index of at most one module
PipeInitLongLists ==
    PipeStart(SeqsUpTo(SectionNames, MaxListedSections),
              {idx \in Indexes : Len(idx.modules) <= 1})

\* ------------------------------------------------ the build function body
\* a handle list built by inserting at the front
PushHandleFront(handles, h) == <<h>> \o handles

\* Vec::push of a JoinHandle
PushHandle(handles, h) == Append(handles, h)

\* a collecting loop that walks the handles from the back
NextHandleReversed(handles, consumed) == handles[Len(handles) - consumed]

\* `for handle in handles`: the handle the loop awaits after `consumed` of them
NextHandle(handles, consumed) == handles[consumed + 1]

\* create_dir_all, book.toml and SUMMARY.md, each of which may fail with `?`
Setup ==
    /\ pc = "start"
    /\ \E io \in {"ok", "mkdir_fails", "book_toml_fails", "summary_fails"} :
         IF builder = "marp"
         THEN /\ io \in {"ok", "mkdir_fails"}
              /\ out_dir' = out_dir
              /\ IF io = "ok"
                 THEN pc' = "spawn_sections" /\ result' = result
                 ELSE pc' = "done" /\ result' = Failure("io", <<"setup", io>>)
         ELSE /\ out_dir' =
                   CASE io = "ok" ->
                          WriteFile(WriteFile(out_dir, BookToml, builder),
                                    SummaryMd, generate_summary(sections))
                     [] io = "summary_fails" -> WriteFile(out_dir, BookToml, builder)
                     [] OTHER -> out_dir
              /\ IF io = "ok"
                 THEN pc' = "spawn_sections" /\ result' = result
                 ELSE pc' = "done" /\ result' = Failure("io", <<"setup", io>>)
    /\ UNCHANGED <<fanVars, walkVars, regVars, searchVars, fnVars, srvVars, pubVars, secDone, modDone, builder, sections, index, secState, secIndex, section_handles,
                   modState, module_handles, permits, awaitIdx, modules_content,
                   marp_content, pages>>

\* a copy that leaves the module records behind
CloneIndexWithoutModules(idx) == [idx EXCEPT !.modules = <<>>]

\* `index_clone.clone()`: Index derives Clone, the copy has every field
CloneIndex(idx) == idx

\* one iteration of `for section in toc { ... tokio::spawn ... push }`
SpawnSection ==
    /\ pc = "spawn_sections"
    /\ Len(section_handles) < Len(sections)
    /\ LET i == Len(section_handles) + 1 IN
         /\ secState' = [secState EXCEPT ![i] = "running"]
         /\ secIndex' = [secIndex EXCEPT ![i] = CloneIndex(index)]
         /\ section_handles' = PushHandle(section_handles, i)
    /\ UNCHANGED <<fanVars, walkVars, regVars, searchVars, fnVars, srvVars, pubVars, secDone, modDone, builder, sections, index, pc, modState, module_handles, permits,
                   awaitIdx, modules_content, marp_content, pages, out_dir, result>>

\* the spawn loop is over: build_wiki enters the module block when toc contains
\* "modules", every other path goes on to collect the section handles
SectionsSpawned ==
    /\ pc = "spawn_sections"
    /\ Len(section_handles) = Len(sections)
    /\ pc' = IF builder = "wiki" /\ "modules" \in Range(sections)
             THEN "spawn_modules" ELSE "await_sections"
    /\ UNCHANGED <<fanVars, walkVars, regVars, searchVars, fnVars, srvVars, pubVars, secDone, modDone, builder, sections, index, secState, secIndex, section_handles,
                   modState, module_handles, permits, awaitIdx, modules_content,
                   marp_content, pages, out_dir, result>>

\* one iteration of `for module in &index.modules { ... tokio::spawn ... push }`;
\* the spawned task starts by waiting for a permit
SpawnModule ==
    /\ pc = "spawn_modules"
    /\ Len(module_handles) < Len(index.modules)
    /\ LET j == Len(module_handles) + 1 IN
         /\ modState' = [modState EXCEPT ![j] = "waiting"]
         /\ module_handles' = PushHandle(module_handles, j)
    /\ UNCHANGED <<fanVars, walkVars, regVars, searchVars, fnVars, srvVars, pubVars, secDone, modDone, builder, sections, index, pc, secState, secIndex, section_handles,
                   permits, awaitIdx, modules_content, marp_content, pages, out_dir,
                   result>>

ModulesSpawned ==
    /\ pc = "spawn_modules"
    /\ Len(module_handles) = Len(index.modules)
    /\ pc' = "await_modules"
    /\ awaitIdx' = 0
    /\ UNCHANGED <<fanVars, walkVars, regVars, searchVars, fnVars, srvVars, pubVars, secDone, modDone, builder, sections, index, secState, secIndex, section_handles,
                   modState, module_handles, permits, modules_content, marp_content,
                   pages, out_dir, result>>

\* a join written `handle.await??`, as the section loop has it
ModuleJoinPropagates(st) == IF st = "ok" THEN "push" ELSE "fail"

\* `if let Ok(Ok(module_content)) = handle.await { push }`: what the loop does
\* with a joined module task
ModuleJoin(st) == IF st = "ok" THEN "push" ELSE "skip"

\* one iteration of `for handle in module_handles`
AwaitModule ==
    /\ pc = "await_modules"
    /\ awaitIdx < Len(module_handles)
    /\ LET j == NextHandle(module_handles, awaitIdx)
           todo == ModuleJoin(modState[j]) IN
         /\ modState[j] \in Finished
         /\ modules_content' =
              IF todo = "push"
              THEN Append(modules_content, ModuleFragment(index, index.modules[j]))
              ELSE modules_content
         /\ IF todo = "fail"
            THEN pc' = "done" /\ result' = Failure(modState[j], <<"module", j>>)
            ELSE pc' = pc /\ result' = result
    /\ awaitIdx' = awaitIdx + 1
    /\ UNCHANGED <<fanVars, walkVars, regVars, searchVars, fnVars, srvVars, pubVars, secDone, modDone, builder, sections, index, secState, secIndex, section_handles,
                   modState, module_handles, permits, marp_content, pages, out_dir>>

\* fs::write(modules.md, modules_content)?
WriteModules ==
    /\ pc = "await_modules"
    /\ awaitIdx = Len(module_handles)
    /\ \E io \in {"ok", "write_fails"} :
         IF io = "ok"
         THEN /\ out_dir' = WriteFile(out_dir, ModulesMd,
                             [list |-> ModulesHeader(index), body |-> modules_content])
              /\ pc' = "await_sections"
              /\ result' = result
         ELSE /\ out_dir' = out_dir
              /\ pc' = "done"
              /\ result' = Failure("io", <<"file", ModulesMd>>)
    /\ awaitIdx' = 0
    /\ UNCHANGED <<fanVars, walkVars, regVars, searchVars, fnVars, srvVars, pubVars, secDone, modDone, builder, sections, index, secState, secIndex, section_handles,
                   modState, module_handles, permits, modules_content, marp_content,
                   pages>>

\* one iteration of `for handle in section_handles { handle.await?? ... }`:
\* build_wiki adds the page count, build_marp pushes the text, a JoinError or a
\* task error leaves the function at once
AwaitSection ==
    /\ pc = "await_sections"
    /\ awaitIdx < Len(section_handles)
    /\ LET i == NextHandle(section_handles, awaitIdx) IN
         /\ secState[i] \in Finished
         /\ IF secState[i] = "ok"
            THEN /\ pages' = IF builder = "wiki" THEN pages + 1 ELSE pages
                 /\ marp_content' =
                      IF builder = "marp"
                      THEN Append(marp_content, SectionText(builder, secIndex[i], sections[i]))
                      ELSE marp_content
                 /\ pc' = pc
                 /\ result' = result
            ELSE /\ pages' = pages
                 /\ marp_content' = marp_content
                 /\ pc' = "done"
                 /\ result' = Failure(secState[i], <<"section", i>>)
    /\ awaitIdx' = awaitIdx + 1
    /\ UNCHANGED <<fanVars, walkVars, regVars, searchVars, fnVars, srvVars, pubVars, secDone, modDone, builder, sections, index, secState, secIndex, section_handles,
                   modState, module_handles, permits, modules_content, out_dir>>

\* every section handle is joined: build_marp writes slides.md (`?`), the other
\* two go on to `mdbook build`
SectionsCollected ==
    /\ pc = "await_sections"
    /\ awaitIdx = Len(section_handles)
    /\ \E io \in {"ok", "write_fails"} :
         IF builder = "marp"
         THEN IF io = "ok"
              THEN /\ out_dir' = WriteFile(out_dir, SlidesMd, marp_content)
                   /\ pc' = "export"
                   /\ result' = result
              ELSE /\ out_dir' = out_dir
                   /\ pc' = "done"
                   /\ result' = Failure("io", <<"file", SlidesMd>>)
         ELSE /\ io = "ok"
              /\ out_dir' = out_dir
              /\ pc' = "build"
              /\ result' = result
    /\ UNCHANGED <<fanVars, walkVars, regVars, searchVars, fnVars, srvVars, pubVars, secDone, modDone, builder, sections, index, secState, secIndex, section_handles,
                   modState, module_handles, permits, awaitIdx, modules_content,
                   marp_content, pages>>

\* the external compiler: `mdbook build` (build_mdbook, build_mdbook_reveal) or
\* the marp CLI once per export format; its failure is the run's error
Compile ==
    /\ pc \in {"build", "export"}
    /\ \E tool \in {"ok", "tool_fails"} :
         result' = IF tool = "ok"
                   THEN [status |-> "ok", pages |-> pages]
                   ELSE Failure("tool", <<"tool", pc>>)
    /\ pc' = "done"
    /\ UNCHANGED <<fanVars, walkVars, regVars, searchVars, fnVars, srvVars, pubVars, secDone, modDone, builder, sections, index, secState, secIndex, section_handles,
                   modState, module_handles, permits, awaitIdx, modules_content,
                   marp_content, pages, out_dir>>

\* ------------------------------------------------------ the spawned tasks
\* how a section task's body can end: build_wiki's "modules" task returns Ok(1)
\* at once and build_marp's placeholder arm is a plain Ok(format!(..)); every
\* other body runs a generator (`?` on the summarizer and the diagrammer, and in
\* build_wiki and build_mdbook_reveal `?` on fs::write) and may also panic
SectionOutcomes(b, section) ==
    IF \/ b = "wiki" /\ section = "modules"
       \/ b = "marp" /\ section \notin {"overview", "architecture", "modules", "flows", "deploy"}
    THEN {"ok"}
    ELSE {"ok", "err", "panic"}

\* whether a section task that ends Ok has written `<section>.md` on its way
SectionWritesFile(b, section) ==
    \/ b = "reveal"
    \/ b = "wiki" /\ section # "modules"

\* a section task runs to its end; nothing but its own body decides when, and it
\* keeps running after the build function has returned (a dropped JoinHandle
\* detaches the task)
SectionTaskEnds(i) ==
    /\ secState[i] = "running"
    /\ \E out \in SectionOutcomes(builder, sections[i]) :
         /\ secState' = [secState EXCEPT ![i] = out]
         /\ out_dir' = IF out = "ok" /\ SectionWritesFile(builder, sections[i])
                     THEN WriteFile(out_dir, FileOf(sections[i]),
                                    SectionText(builder, secIndex[i], sections[i]))
                     ELSE out_dir
    /\ secDone' = Append(secDone, i)
    /\ UNCHANGED <<fanVars, walkVars, regVars, searchVars, fnVars, srvVars, pubVars, modDone, builder, sections, index, pc, secIndex, section_handles, modState,
                   module_handles, permits, awaitIdx, modules_content, marp_content,
                   pages, result>>

\* an acquire that never makes its caller wait
CanAcquireAlways(available) == TRUE

\* Semaphore::acquire: a permit is handed out only while one is available
CanAcquire(available) == available > 0

\* `let _permit = permit.acquire().await.unwrap();`
ModuleTaskAcquires(j) ==
    /\ modState[j] = "waiting"
    /\ CanAcquire(permits)
    /\ permits' = permits - 1
    /\ modState' = [modState EXCEPT ![j] = "running"]
    /\ UNCHANGED <<fanVars, walkVars, regVars, searchVars, fnVars, srvVars, pubVars, secDone, modDone, builder, sections, index, pc, secState, secIndex, section_handles,
                   module_handles, awaitIdx, modules_content, marp_content, pages,
                   out_dir, result>>

\* generate_module_content_detailed returns (or the task panics); `_permit` is
\* dropped on every way out of the block
ModuleTaskEnds(j) ==
    /\ modState[j] = "running"
    /\ \E out \in {"ok", "err", "panic"} :
         modState' = [modState EXCEPT ![j] = out]
    /\ permits' = permits + 1
    /\ modDone' = Append(modDone, j)
    /\ UNCHANGED <<fanVars, walkVars, regVars, searchVars, fnVars, srvVars, pubVars, secDone, builder, sections, index, pc, secState, secIndex, section_handles,
                   module_handles, awaitIdx, modules_content, marp_content, pages,
                   out_dir, result>>

Next ==
    \/ Setup
    \/ SpawnSection
    \/ SectionsSpawned
    \/ SpawnModule
    \/ ModulesSpawned
    \/ AwaitModule
    \/ WriteModules
    \/ AwaitSection
    \/ SectionsCollected
    \/ Compile
    \/ \E i \in DOMAIN secState : SectionTaskEnds(i)
    \/ \E j \in DOMAIN modState : ModuleTaskAcquires(j)
    \/ \E j \in DOMAIN modState : ModuleTaskEnds(j)

\* -------------------------------------------- the module fan-out, counted
\* The module block of build_wiki again, for Indexes with more ModuleRecords than
\* the semaphore has permits.  The module tasks run the same code and differ
\* only in the record they render, so this view counts the tasks in each
\* position instead of naming them.

\* the variables of this view while another specification runs
FanIdle ==
    /\ fanModules = 0
    /\ fanPc = "collected"
    /\ fanSpawned = 0
    /\ fanWaiting = 0
    /\ fanRunning = 0
    /\ fanEnded = 0
    /\ fanPermits = ModuleSemaphorePermits

\* module counts tried: none, one, and the permit count with up to MaxOverCap more
FanSizes == {0, 1} \cup (ModuleSemaphorePermits .. ModuleSemaphorePermits + MaxOverCap)

FanInit ==
    /\ fanModules \in FanSizes
    /\ fanPc = "spawn"
    /\ fanSpawned = 0
    /\ fanWaiting = 0
    /\ fanRunning = 0
    /\ fanEnded = 0
    /\ fanPermits = ModuleSemaphorePermits

\* one iteration of `for module in &index.modules { ... tokio::spawn ... }`
FanSpawn ==
    /\ fanPc = "spawn"
    /\ fanSpawned < fanModules
    /\ fanSpawned' = fanSpawned + 1
    /\ fanWaiting' = fanWaiting + 1
    /\ UNCHANGED <<pipeVars, walkVars, regVars, searchVars, fnVars, srvVars, pubVars, fanModules, fanPc, fanRunning, fanEnded, fanPermits>>

FanSpawned ==
    /\ fanPc = "spawn"
    /\ fanSpawned = fanModules
    /\ fanPc' = "await"
    /\ UNCHANGED <<pipeVars, walkVars, regVars, searchVars, fnVars, srvVars, pubVars, fanModules, fanSpawned, fanWaiting, fanRunning, fanEnded,
                   fanPermits>>

\* `let _permit = permit.acquire().await.unwrap();` in one of the waiting tasks
FanAcquire ==
    /\ fanWaiting > 0
    /\ CanAcquire(fanPermits)
    /\ fanWaiting' = fanWaiting - 1
    /\ fanRunning' = fanRunning + 1
    /\ fanPermits' = fanPermits - 1
    /\ UNCHANGED <<pipeVars, walkVars, regVars, searchVars, fnVars, srvVars, pubVars, fanModules, fanPc, fanSpawned, fanEnded>>

\* a guard that goes back to the semaphore only when the task returns Ok
DropPermitOnSuccess(available, out) == IF out = "ok" THEN available + 1 ELSE available

\* the drop of `_permit` at the end of the task's future, whichever way it ends
DropPermit(available, out) == available + 1

\* one of the running tasks returns Ok or Err, or panics; `_permit` is dropped
FanTaskEnds ==
    /\ fanRunning > 0
    /\ \E out \in {"ok", "err", "panic"} :
         /\ fanRunning' = fanRunning - 1
         /\ fanEnded' = fanEnded + 1
         /\ fanPermits' = DropPermit(fanPermits, out)
    /\ UNCHANGED <<pipeVars, walkVars, regVars, searchVars, fnVars, srvVars, pubVars, fanModules, fanPc, fanSpawned, fanWaiting>>

\* `for handle in module_handles { handle.await }` has joined every task
FanCollected ==
    /\ fanPc = "await"
    /\ fanEnded = fanModules
    /\ fanPc' = "collected"
    /\ UNCHANGED <<pipeVars, walkVars, regVars, searchVars, fnVars, srvVars, pubVars, fanModules, fanSpawned, fanWaiting, fanRunning, fanEnded,
                   fanPermits>>

FanNext ==
    \/ FanSpawn
    \/ FanSpawned
    \/ FanAcquire
    \/ FanTaskEnds
    \/ FanCollected

\* the variables of the pipeline while another specification runs
PipeIdle ==
    /\ builder = "wiki"
    /\ sections = <<>>
    /\ index = [modules |-> <<>>]
    /\ pc = "done"
    /\ secState = <<>>
    /\ secIndex = <<>>
    /\ section_handles = <<>>
    /\ modState = <<>>
    /\ module_handles = <<>>
    /\ permits = ModuleSemaphorePermits
    /\ awaitIdx = 0
    /\ modules_content = <<>>
    /\ marp_content = <<>>
    /\ pages = 0
    /\ out_dir = NoFiles
    /\ result = Pending
    /\ secDone = <<>>
    /\ modDone = <<>>


\* ---------------------------------------------------------- analyzer-core
\* Text is a sequence of atoms: "/", ".", "*", "(" stand for themselves and every
\* other atom is a name, a run of characters holding none of these.  Paths and
\* patterns are built from the same names, so a match never ends inside a name.

\* Option<T>: <<>> is None, <<x>> is Some(x)
None == <<>>
Some(x) == <<x>>

Max(S) == CHOOSE m \in S : \A x \in S : x <= m

\* index of the last atom `a` of `s`, 0 when there is none
LastIndexOf(s, a) == Max({0} \cup {i \in 1..Len(s) : s[i] = a})

\* Path::file_name: what follows the last separator
file_name(path) == SubSeq(path, LastIndexOf(path, "/") + 1, Len(path))

\* Path::parent, then Path::file_name: the name of the directory holding the file
parent_name(path) ==
    LET cut == LastIndexOf(path, "/") IN
      IF cut <= 1 THEN None ELSE Some(file_name(SubSeq(path, 1, cut - 1)))

\* Path::extension: what follows the last dot of the file name, unless the file
\* name has no dot or only a leading one
extension(path) ==
    LET name == file_name(path)
        dot == LastIndexOf(name, ".") IN
      IF dot <= 1 THEN None ELSE Some(SubSeq(name, dot + 1, Len(name)))

\* Path::file_stem: the file name without its extension
file_stem(path) ==
    LET name == file_name(path)
        dot == LastIndexOf(name, ".") IN
      IF dot <= 1 THEN name ELSE SubSeq(name, 1, dot - 1)

\* detect_language made case-insensitive: upper-case extensions count as well
detect_language_ignoring_case(path) ==
    LET ext == extension(path) IN
      IF ext = None THEN None
      ELSE CASE ext[1] \in {<<"ts">>, <<"tsx">>, <<"TS">>} -> Some("ts")
             [] ext[1] \in {<<"js">>, <<"jsx">>, <<"mjs">>, <<"cjs">>} -> Some("js")
             [] ext[1] = <<"py">> -> Some("py")
             [] ext[1] = <<"go">> -> Some("go")
             [] ext[1] = <<"rs">> -> Some("rs")
             [] ext[1] = <<"java">> -> Some("java")
             [] OTHER -> None

\* Analyzer::detect_language: an exact, case-sensitive match of the extension
detect_language(path) ==
    LET ext == extension(path) IN
      IF ext = None THEN None
      ELSE CASE ext[1] \in {<<"ts">>, <<"tsx">>} -> Some("ts")
             [] ext[1] \in {<<"js">>, <<"jsx">>, <<"mjs">>, <<"cjs">>} -> Some("js")
             [] ext[1] = <<"py">> -> Some("py")
             [] ext[1] = <<"go">> -> Some("go")
             [] ext[1] = <<"rs">> -> Some("rs")
             [] ext[1] = <<"java">> -> Some("java")
             [] OTHER -> None

\* a classifier that looks at the file name only, never at the parent directory
is_module_file_by_name_only(path, language) ==
    LET name == file_name(path) IN
      CASE language \in {"ts", "js"} ->
             name \in {<<"index", ".", "ts">>, <<"index", ".", "js">>,
                       <<"index", ".", "tsx">>, <<"index", ".", "jsx">>}
        [] language = "py" -> name = <<"__init__", ".", "py">>
        [] language = "rs" -> name = <<"lib", ".", "rs">>
        [] OTHER -> FALSE

\* Analyzer::is_module_file
is_module_file(path, language) ==
    LET name == file_name(path)
        parent == parent_name(path) IN
      CASE language \in {"ts", "js"} ->
             \/ name \in {<<"index", ".", "ts">>, <<"index", ".", "js">>,
                          <<"index", ".", "tsx">>, <<"index", ".", "jsx">>}
             \/ parent = Some(<<"src">>)
             \/ parent = Some(<<"lib">>)
        [] language = "py" ->
             \/ name = <<"__init__", ".", "py">>
             \/ parent = Some(<<"src">>)
             \/ parent = Some(<<"lib">>)
        [] language = "go" -> parent = Some(<<"cmd">>) \/ parent = Some(<<"pkg">>)
        [] language = "rs" -> name = <<"lib", ".", "rs">> \/ parent = Some(<<"src">>)
        [] OTHER -> FALSE

\* ---- should_exclude
RECURSIVE ReplaceStarStar(_), ReplaceStar(_), ReplaceDot(_)
\* .replace("**", ".*"): leftmost pairs of stars become `.` `*`
ReplaceStarStar(p) ==
    IF Len(p) = 0 THEN <<>>
    ELSE IF Len(p) >= 2 /\ p[1] = "*" /\ p[2] = "*"
         THEN <<".", "*">> \o ReplaceStarStar(SubSeq(p, 3, Len(p)))
         ELSE <<p[1]>> \o ReplaceStarStar(Tail(p))

\* .replace("*", "[^/]*"): every star becomes the class-star atom
ReplaceStar(p) ==
    IF Len(p) = 0 THEN <<>>
    ELSE <<IF p[1] = "*" THEN "[^/]*" ELSE p[1]>> \o ReplaceStar(Tail(p))

\* .replace(".", "\\."): every dot becomes an escaped dot
ReplaceDot(p) ==
    IF Len(p) = 0 THEN <<>>
    ELSE <<IF p[1] = "." THEN "\\." ELSE p[1]>> \o ReplaceDot(Tail(p))

\* the regex source built from a glob pattern, between `^` and `$`
regex_pattern(pattern) == ReplaceDot(ReplaceStar(ReplaceStarStar(pattern)))

\* Regex::new(..).is_ok(): an unclosed group does not compile
Compiles(re) == \A i \in 1..Len(re) : re[i] # "("

RECURSIVE is_match(_, _)
\* Regex::is_match of the anchored regex: `[^/]*` takes any run of atoms other
\* than the separator, `\.` takes a dot, a name takes itself
is_match(re, text) ==
    IF Len(re) = 0 THEN Len(text) = 0
    ELSE IF re[1] = "[^/]*"
         THEN \/ is_match(Tail(re), text)
              \/ Len(text) > 0 /\ text[1] # "/" /\ is_match(re, Tail(text))
         ELSE /\ Len(text) > 0
              /\ text[1] = (IF re[1] = "\\." THEN "." ELSE re[1])
              /\ is_match(Tail(re), Tail(text))

\* a should_exclude that excludes on a pattern it cannot compile
should_exclude_failing_closed(path, exclude_patterns) ==
    \E i \in 1..Len(exclude_patterns) :
        LET re == regex_pattern(exclude_patterns[i]) IN
          ~Compiles(re) \/ is_match(re, path)

\* Analyzer::should_exclude
should_exclude(path, exclude_patterns) ==
    \E i \in 1..Len(exclude_patterns) :
        LET re == regex_pattern(exclude_patterns[i]) IN
          Compiles(re) /\ is_match(re, path)

\* ---- dependency extraction
\* File content is a sequence of statements (lines), each reduced to what the
\* extractors' regexes look at: its kind and the tokens it names.
Stmt(kind, toks) == [kind |-> kind, toks |-> toks, brace |-> FALSE]

RECURSIVE Tokens(_, _)
\* the tokens of the statements of `content` whose kind is in `kinds`, in text order
Tokens(content, kinds) ==
    IF Len(content) = 0 THEN <<>>
    ELSE (IF content[1].kind \in kinds THEN content[1].toks ELSE <<>>)
         \o Tokens(Tail(content), kinds)

\* extract_js_dependencies: every import/export ... from match, then every require match
extract_js_dependencies(content) ==
    Tokens(content, {"import_from", "export_from"}) \o Tokens(content, {"require"})

\* extract_py_dependencies: per line, the token after a leading import / from
extract_py_dependencies(content) == Tokens(content, {"py_import", "py_from"})

\* extract_go_dependencies: import "X", or every quoted token of an import ( ... ) block
extract_go_dependencies(content) == Tokens(content, {"go_import", "go_block"})

RECURSIVE extract_rust_every_use(_)
\* an extractor that takes the first segment of every `use`
extract_rust_every_use(content) ==
    IF Len(content) = 0 THEN <<>>
    ELSE (IF content[1].kind = "use" THEN <<content[1].toks[1]>> ELSE <<>>)
         \o extract_rust_every_use(Tail(content))

RECURSIVE extract_rust_dependencies(_)
\* extract_rust_dependencies: the first `::` segment of a `use` whose path has a
\* `::` or a `{`
extract_rust_dependencies(content) ==
    IF Len(content) = 0 THEN <<>>
    ELSE (IF /\ content[1].kind = "use"
             /\ (Len(content[1].toks) > 1 \/ content[1].brace)
          THEN <<content[1].toks[1]>> ELSE <<>>)
         \o extract_rust_dependencies(Tail(content))

\* the `match language` of analyze_file
extract_dependencies(content, language) ==
    CASE language \in {"ts", "js", "tsx", "jsx"} -> extract_js_dependencies(content)
      [] language = "py" -> extract_py_dependencies(content)
      [] language = "go" -> extract_go_dependencies(content)
      [] language = "rs" -> extract_rust_dependencies(content)
      [] OTHER -> <<>>

\* Analyzer::analyze_file on a file whose text could be read
analyze_file(entry, language) ==
    [path |-> entry.path,
     name |-> file_stem(entry.path),
     language |-> language,
     size |-> entry.size,
     dependencies |-> extract_dependencies(entry.content, language),
     is_module |-> is_module_file(entry.path, language),
     content |-> Some(entry.content)]

\* a ModuleInfo that does not take the file's dependencies along
ModuleInfoWithoutDependencies(entry, file_info, lang) ==
    [path |-> entry.path,
     name |-> file_info.name,
     language |-> lang,
     dependencies |-> <<>>]

\* the ModuleInfo pushed for a FileInfo with is_module
ModuleInfoOf(entry, file_info, lang) ==
    [path |-> entry.path,
     name |-> file_info.name,
     language |-> lang,
     dependencies |-> file_info.dependencies]


\* ---- the tree under the root
Root == <<"r">>

\* Path::join of the root and a relative path
Join(rel) == Root \o <<"/">> \o rel

File(rel, size, meta_ok, readable, content) ==
    [kind |-> "file", path |-> Join(rel), size |-> size, meta_ok |-> meta_ok,
     readable |-> readable, content |-> content]

Dir(rel) ==
    [kind |-> "dir", path |-> Join(rel), size |-> 0, meta_ok |-> TRUE,
     readable |-> FALSE, content |-> <<>>]

\* an Err item of the WalkDir iterator (a directory that cannot be listed)
WalkError ==
    [kind |-> "error", path |-> <<>>, size |-> 0, meta_ok |-> FALSE,
     readable |-> FALSE, content |-> <<>>]

JsText == <<Stmt("import_from", <<"./foo">>), Stmt("require", <<"baz">>),
            Stmt("import_from", <<"bar">>)>>
PyText == <<Stmt("py_import", <<"os">>), Stmt("py_from", <<"pathlib">>)>>
GoText == <<Stmt("go_import", <<"fmt">>)>>
RsText == <<[kind |-> "use", toks |-> <<"foo", "bar">>, brace |-> FALSE],
            [kind |-> "use", toks |-> <<"baz">>, brace |-> FALSE]>>

\* the entries a tree is made of: sources of every kind of fate in the walk
Universe ==
    { File(<<"src", "/", "index", ".", "ts">>, 10, TRUE, TRUE, JsText),
      File(<<"README", ".", "md">>, 10, TRUE, TRUE, JsText),
      File(<<"a", ".", "TS">>, 10, TRUE, TRUE, JsText),
      File(<<"Makefile">>, 10, TRUE, TRUE, PyText),
      File(<<".", "ts">>, 10, TRUE, TRUE, JsText),
      File(<<"big", ".", "py">>, 3072, TRUE, TRUE, PyText),
      File(<<"lib", "/", "edge", ".", "js">>, 2049, TRUE, TRUE, JsText),
      File(<<"pkg", "/", "main", ".", "go">>, 1025, TRUE, TRUE, GoText),
      File(<<"src", "/", "lib", ".", "rs">>, 10, TRUE, FALSE, RsText),
      File(<<"util", ".", "rs">>, 1024, TRUE, TRUE, RsText),
      File(<<"gone", ".", "java">>, 10, FALSE, TRUE, <<>>),
      File(<<"node_modules", "/", "index", ".", "js">>, 10, TRUE, TRUE, JsText),
      Dir(<<"src">>),
      WalkError }

\* ProjectConfig::default().exclude
DefaultExclude ==
    << <<"*", "*", "/", "node_modules", "/", "*", "*">>,
       <<"*", "*", "/", "dist", "/", "*", "*">>,
       <<"*", "*", "/", ".", "git", "/", "*", "*">> >>

\* a list whose first pattern has an unclosed group and does not compile
MalformedExclude ==
    << <<"r", "/", "(", "old", "/", "*", "*">>,
       <<"r", "/", "node_modules", "/", "*">> >>

Configs ==
    { [exclude |-> ex, max_file_kb |-> kb, infer_entrypoints |-> <<>>] :
        ex \in {DefaultExclude, << <<"r", "/", "node_modules", "/", "*">> >>,
                MalformedExclude},
        kb \in {1, 2} }

\* sequences of at most n different entries
Trees(n) ==
    {t \in SeqsUpTo(Universe, n) : \A i, j \in 1..Len(t) : i # j => t[i] # t[j]}

\* ---- infer_entrypoints
Exists(t, path) == \E i \in 1..Len(t) : t[i].kind # "error" /\ t[i].path = path

EntrypointCandidates ==
    << <<"main", ".", "ts">>, <<"main", ".", "js">>, <<"index", ".", "ts">>,
       <<"index", ".", "js">>, <<"main", ".", "py">>, <<"__main__", ".", "py">>,
       <<"main", ".", "go">>, <<"main", ".", "rs">> >>

RECURSIVE ExistingOf(_, _)
\* the joined paths of `rels` that exist, in the order of `rels`
ExistingOf(t, rels) ==
    IF Len(rels) = 0 THEN <<>>
    ELSE (IF Exists(t, Join(rels[1])) THEN <<Join(rels[1])>> ELSE <<>>)
         \o ExistingOf(t, Tail(rels))

RECURSIVE WildcardScanAnyMain(_)
\* a scan that also takes main.go, as the pattern cmd/**/main.go would
WildcardScanAnyMain(t) ==
    IF Len(t) = 0 THEN <<>>
    ELSE (IF /\ t[1].kind = "file"
             /\ file_name(t[1].path) \in {<<"main", ".", "ts">>, <<"index", ".", "ts">>,
                                          <<"main", ".", "go">>}
          THEN <<t[1].path>> ELSE <<>>)
         \o WildcardScanAnyMain(Tail(t))

RECURSIVE WildcardScan(_)
\* one tree walk of a `**` pattern: every file named main.ts or index.ts
WildcardScan(t) ==
    IF Len(t) = 0 THEN <<>>
    ELSE (IF /\ t[1].kind = "file"
             /\ file_name(t[1].path) \in {<<"main", ".", "ts">>, <<"index", ".", "ts">>}
          THEN <<t[1].path>> ELSE <<>>)
         \o WildcardScan(Tail(t))

\* Analyzer::infer_entrypoints: the hints, the literal candidates, then one scan
\* for each of the three `**` patterns; None when a scan meets an Err item
infer_entrypoints(t, cfg) ==
    IF \E i \in 1..Len(t) : t[i].kind = "error" THEN None
    ELSE Some(ExistingOf(t, cfg.infer_entrypoints) \o ExistingOf(t, EntrypointCandidates)
              \o WildcardScan(t) \o WildcardScan(t) \o WildcardScan(t))

\* ---- analyze_repo
\* `metadata.len() / 1024`
size_kb(len) == len \div 1024

\* the size check of the walk
TooLarge(entry, cfg) == size_kb(entry.size) > cfg.max_file_kb

\* the table fed from module files only
AddDependenciesOfModules(deps, file_info) ==
    [d \in (DOMAIN deps) \cup (IF file_info.is_module
                                 THEN Range(file_info.dependencies) ELSE {}) |->
        IF d \in DOMAIN deps THEN deps[d] ELSE <<>>]

\* `dependencies.entry(dep).or_insert_with(Vec::new)` for every dep of a file
AddDependencies(deps, file_info) ==
    [d \in (DOMAIN deps) \cup Range(file_info.dependencies) |->
        IF d \in DOMAIN deps THEN deps[d] ELSE <<>>]

\* stats whose module count is taken from the file list
StatsOfFilesOnly(fs, langs, ms) == [files |-> Len(fs), languages |-> langs, modules |-> Len(fs)]

\* IndexStats
StatsOf(fs, langs, ms) == [files |-> Len(fs), languages |-> langs, modules |-> Len(ms)]

WalkIdle ==
    /\ tree = <<>>
    /\ config = [exclude |-> <<>>, max_file_kb |-> 1, infer_entrypoints |-> <<>>]
    /\ walkPos = 0
    /\ files = <<>>
    /\ modules = <<>>
    /\ dependencies = NoFiles
    /\ languages = {}
    /\ walkResult = [status |-> "idle"]

WalkInit ==
    /\ tree \in Trees(MaxEntries)
    /\ config \in Configs
    /\ walkPos = 0
    /\ files = <<>>
    /\ modules = <<>>
    /\ dependencies = NoFiles
    /\ languages = {}
    /\ walkResult = Pending

\* one iteration of `for entry in WalkDir::new(repo_path)`
WalkEntry ==
    /\ walkResult = Pending
    /\ walkPos < Len(tree)
    /\ walkPos' = walkPos + 1
    /\ LET entry == tree[walkPos + 1]
           lang == detect_language(entry.path)
           file_info == analyze_file(entry, lang[1]) IN
         IF entry.kind = "error"
         THEN /\ walkResult' = Failure("io", <<"walk", walkPos + 1>>)
              /\ UNCHANGED <<files, modules, dependencies, languages>>
         ELSE IF entry.kind # "file" \/ should_exclude(entry.path, config.exclude)
         THEN UNCHANGED <<files, modules, dependencies, languages, walkResult>>
         ELSE IF ~entry.meta_ok
         THEN /\ walkResult' = Failure("io", <<"metadata", walkPos + 1>>)
              /\ UNCHANGED <<files, modules, dependencies, languages>>
         ELSE IF TooLarge(entry, config) \/ lang = None
         THEN UNCHANGED <<files, modules, dependencies, languages, walkResult>>
         ELSE /\ languages' = languages \cup {lang[1]}
              /\ IF entry.readable
                 THEN /\ files' = Append(files, file_info)
                      /\ modules' = IF file_info.is_module
                                    THEN Append(modules, ModuleInfoOf(entry, file_info, lang[1]))
                                    ELSE modules
                      /\ dependencies' = AddDependencies(dependencies, file_info)
                 ELSE UNCHANGED <<files, modules, dependencies>>
              /\ UNCHANGED walkResult
    /\ UNCHANGED <<pipeVars, fanVars, regVars, searchVars, fnVars, srvVars, pubVars, tree, config>>

\* the walk is over: the stats, the entry points and the Index
WalkFinish ==
    /\ walkResult = Pending
    /\ walkPos = Len(tree)
    /\ LET entrypoints == infer_entrypoints(tree, config) IN
         walkResult' =
           IF entrypoints = None
           THEN Failure("io", <<"entrypoints", 0>>)
           ELSE [status |-> "ok",
                 index |-> [id |-> "uuid",
                            repo_path |-> Root,
                            files |-> files,
                            modules |-> modules,
                            languages |-> languages,
                            dependencies |-> dependencies,
                            entrypoints |-> entrypoints[1],
                            stats |-> StatsOf(files, languages, modules)]]
    /\ UNCHANGED <<pipeVars, fanVars, regVars, searchVars, fnVars, srvVars, pubVars, tree, config, walkPos, files, modules,
                   dependencies, languages>>

WalkNext ==
    \/ WalkEntry
    \/ WalkFinish

\* ------------------------------------------------- mcp-server: index_repo
\* ticks of the clock in one second: "%S" is the finest field of the format
TicksPerSecond == 2

\* the `repo_path` arguments
Repos == {"repoA", "repoB"}

\* format!("idx_{}", Utc::now().format("%Y%m%d_%H%M%S")): the time cut to the second
format_index_id(now) == <<"idx", now \div TicksPerSecond>>

\* the Index analyze_repo builds for a call: a fresh uuid and the repository
BuiltIndex(n, repo) == [id |-> <<"uuid", n>>, repo_path |-> repo]

\* HashMap::insert: the value under an existing key is replaced
Insert(map, key, value) ==
    [x \in (DOMAIN map) \cup {key} |-> IF x = key THEN value ELSE map[x]]

RegIdle ==
    /\ indexes = NoFiles
    /\ clock = 0
    /\ regCalls = 0
    /\ returned = <<>>
    /\ fetched = None

\* McpServer::new; the clock stands anywhere in its first second
RegInit ==
    /\ indexes = NoFiles
    /\ clock \in 0..(TicksPerSecond - 1)
    /\ regCalls = 0
    /\ returned = <<>>
    /\ fetched = None

\* time passes between two requests
Tick ==
    /\ clock < MaxTicks
    /\ clock' = clock + 1
    /\ UNCHANGED <<pipeVars, fanVars, walkVars, searchVars, fnVars, srvVars, pubVars, indexes, regCalls, returned, fetched>>

\* McpServer::index_repo: Config::load and analyze_repo may fail (`?`); otherwise
\* the Index is stored under the id made from the time and the id is returned
IndexRepo ==
    /\ regCalls < MaxCalls
    /\ regCalls' = regCalls + 1
    /\ \E repo \in Repos, analyzed \in BOOLEAN :
         IF analyzed
         THEN LET built == BuiltIndex(regCalls + 1, repo)
                  index_id == format_index_id(clock) IN
                /\ indexes' = Insert(indexes, index_id, built)
                /\ returned' = Append(returned, [index_id |-> index_id, index |-> built])
         ELSE UNCHANGED <<indexes, returned>>
    /\ UNCHANGED <<pipeVars, fanVars, walkVars, searchVars, fnVars, srvVars, pubVars, clock, fetched>>

\* `indexes.get(&args.index_id)` of generate_wiki and generate_slides
GetIndex ==
    /\ \E index_id \in {format_index_id(t) : t \in 0..MaxTicks} :
         fetched' = IF index_id \in DOMAIN indexes
                    THEN Some([index_id |-> index_id, index |-> indexes[index_id]])
                    ELSE None
    /\ UNCHANGED <<pipeVars, fanVars, walkVars, searchVars, fnVars, srvVars, pubVars, indexes, clock, regCalls, returned>>

RegNext ==
    \/ Tick
    \/ IndexRepo
    \/ GetIndex

\* ------------------------------------------------------- Index::search
SearchIdle ==
    /\ searchFiles = <<>>
    /\ searchQuery = <<>>
    /\ searchK = 0
    /\ searchHits = None
    /\ searchPrev = None
    /\ searchCalls = 0
    /\ searchPanic = FALSE

\* Text is here a sequence of characters; "U+3042" is a character outside
\* ASCII (HIRAGANA LETTER A).
\* char::to_lowercase of the characters in use
LowerOf(c) == CASE c = "A" -> "a" [] c = "B" -> "b" [] OTHER -> c

\* char::len_utf8: the bytes a character takes in a str
Width(c) == IF c = "U+3042" THEN 3 ELSE 1

RECURSIVE BytesOfPrefix(_, _)
\* the bytes the first k characters of a text take
BytesOfPrefix(text, k) ==
    IF k = 0 THEN 0 ELSE BytesOfPrefix(text, k - 1) + Width(text[k])

\* str::len: the length of a text in bytes
ByteLen(text) == BytesOfPrefix(text, Len(text))

\* the characters of `text` that lie wholly before byte offset n
CharsBefore(text, n) ==
    Max({k \in 0..Len(text) : BytesOfPrefix(text, k) <= n})

\* str::is_char_boundary
is_char_boundary(text, n) ==
    \E k \in 0..Len(text) : BytesOfPrefix(text, k) = n

\* `&text[start..end]`: the slice between two byte offsets, None when the index
\* operation panics (offsets out of order, past the end, or inside a character)
SliceBytes(text, start, end) ==
    IF /\ start <= end
       /\ end <= ByteLen(text)
       /\ is_char_boundary(text, start)
       /\ is_char_boundary(text, end)
    THEN Some(SubSeq(text, CharsBefore(text, start) + 1, CharsBefore(text, end)))
    ELSE None

\* str::to_lowercase
to_lowercase(text) == [i \in 1..Len(text) |-> LowerOf(text[i])]

\* str::starts_with
starts_with(text, pat) == Len(pat) <= Len(text) /\ SubSeq(text, 1, Len(pat)) = pat

\* a containment test that looks at the start of the text only
contains_at_start(text, pat) == starts_with(text, pat)

RECURSIVE contains(_, _)
\* str::contains: the pattern starts at some offset of the text
contains(text, pat) ==
    IF starts_with(text, pat) THEN TRUE
    ELSE IF Len(text) = 0 THEN FALSE
    ELSE contains(Tail(text), pat)

RECURSIVE find(_, _)
\* str::find: the byte offset of the first match, counted from 0
find(text, pat) ==
    IF starts_with(text, pat) THEN Some(0)
    ELSE IF Len(text) = 0 THEN None
    ELSE LET rest == find(Tail(text), pat) IN
           IF rest = None THEN None ELSE Some(rest[1] + Width(text[1]))

RECURSIVE matches_count(_, _)
\* str::matches(word).count(): matches that do not overlap, from the left
matches_count(text, word) ==
    IF Len(text) < Len(word) THEN 0
    ELSE IF starts_with(text, word)
         THEN 1 + matches_count(SubSeq(text, Len(word) + 1, Len(text)), word)
         ELSE matches_count(Tail(text), word)

RECURSIVE split_whitespace(_, _)
\* str::split_whitespace, `word` being the word under way
split_whitespace(text, word) ==
    IF Len(text) = 0 THEN (IF Len(word) = 0 THEN <<>> ELSE <<word>>)
    ELSE IF text[1] = " "
         THEN (IF Len(word) = 0 THEN <<>> ELSE <<word>>) \o split_whitespace(Tail(text), <<>>)
         ELSE split_whitespace(Tail(text), Append(word, text[1]))

RECURSIVE SumOfCounts(_, _)
SumOfCounts(content, words) ==
    IF Len(words) = 0 THEN 0
    ELSE matches_count(content, words[1]) + SumOfCounts(content, Tail(words))

\* Index::calculate_score: the f64 quotient kept as numerator and denominator
calculate_score(content, query) ==
    LET query_words == split_whitespace(query, <<>>) IN
      [num |-> SumOfCounts(content, query_words), den |-> Len(query_words) + 1]

\* f64 `>` on two scores
ScoreGreater(a, b) == a.num * b.den > b.num * a.den

Min(a, b) == IF a <= b THEN a ELSE b

\* the `start` and `end` extract_excerpt computes for a match at byte `pos`
ExcerptWindow(content, query, max_len, pos) ==
    [start |-> Max({pos - (max_len \div 2), 0}),
     end |-> Min(pos + ByteLen(query) + (max_len \div 2), ByteLen(content))]

\* Index::extract_excerpt: Some(excerpt), or None when slicing the content panics
extract_excerpt(content, query, max_len) ==
    LET pos == find(to_lowercase(content), query) IN
      IF pos # None
      THEN LET w == ExcerptWindow(content, query, max_len, pos[1])
               excerpt == SliceBytes(content, w.start, w.end) IN
             IF excerpt = None THEN None
             ELSE Some(<<"...">> \o excerpt[1] \o <<"...">>)
      ELSE LET excerpt == SliceBytes(content, 0, Min(ByteLen(content), max_len)) IN
             IF excerpt = None THEN None ELSE Some(excerpt[1] \o <<"...">>)

\* the `max_len` search passes to extract_excerpt
ExcerptMaxLen == 100

RECURSIVE collect_hits(_, _)
\* the `for file in &self.files` loop of search: one SearchHit for each file
\* with content whose lower-cased text contains the lower-cased query
collect_hits(fs, query_lower) ==
    IF Len(fs) = 0 THEN <<>>
    ELSE (IF fs[1].content # None /\ contains(to_lowercase(fs[1].content[1]), query_lower)
          THEN <<[path |-> fs[1].path,
                  score |-> calculate_score(to_lowercase(fs[1].content[1]), query_lower),
                  excerpt |-> extract_excerpt(fs[1].content[1], query_lower, ExcerptMaxLen)]>>
          ELSE <<>>)
         \o collect_hits(Tail(fs), query_lower)

RECURSIVE InsertByScore(_, _)
\* puts a hit behind every hit of `sorted` that does not score less than it
InsertByScore(sorted, hit) ==
    IF Len(sorted) = 0 THEN <<hit>>
    ELSE IF ScoreGreater(hit.score, sorted[1].score)
         THEN <<hit>> \o sorted
         ELSE <<sorted[1]>> \o InsertByScore(Tail(sorted), hit)

RECURSIVE StableSort(_)
StableSort(hs) ==
    IF Len(hs) = 0 THEN <<>>
    ELSE InsertByScore(StableSort(SubSeq(hs, 1, Len(hs) - 1)), hs[Len(hs)])

\* the arrangements of `hs`
Arrangements(hs) ==
    {[i \in 1..Len(hs) |-> hs[f[i]]] :
       f \in {g \in [1..Len(hs) -> 1..Len(hs)] : \A i, j \in 1..Len(hs) : i # j => g[i] # g[j]}}

\* a sort free to order hits of equal score either way
SortOutcomesUnstable(hs) ==
    {p \in Arrangements(hs) :
       \A i \in 1..(Len(p) - 1) : ~ScoreGreater(p[i + 1].score, p[i].score)}

\* what `hits.sort_by(|a, b| b.score.partial_cmp(&a.score)..)` can leave: the
\* sort is stable, so one arrangement
SortOutcomes(hs) == {StableSort(hs)}

\* a truncate that cuts nothing
truncate_nothing(hs, k) == hs

\* Vec::truncate
truncate(hs, k) == SubSeq(hs, 1, Min(k, Len(hs)))

\* the hits that were built, each with the String its excerpt is
Unwrapped(hs) == [i \in 1..Len(hs) |-> [hs[i] EXCEPT !.excerpt = hs[i].excerpt[1]]]

\* the texts a file of the searched Index holds; the last one is "ab" followed
\* by 17 three-byte characters (53 bytes)
Contents ==
    { <<"a", "b">> \o [i \in 1..17 |-> "U+3042"],
      <<"a", "b">>,
      <<"A", "b", " ", "a", "b">>,
      <<"b", "A", "b">>,
      <<"a", " ", "B">> }

Queries ==
    { <<>>, <<" ">>, <<"a">>, <<"b">>, <<"A", "B">>, <<"a", " ", "b">> }

\* the FileInfo at place i of the Index, as far as search reads it; content is
\* None in an Index that was stored without it
SearchFile(i, content) == [path |-> <<"f", i>>, content |-> content]

SearchInit ==
    /\ \E cs \in SeqsUpTo({Some(c) : c \in Contents} \cup {None}, MaxSearchFiles) :
         searchFiles = [i \in 1..Len(cs) |-> SearchFile(i, cs[i])]
    /\ searchQuery \in Queries
    /\ searchK \in 0..MaxK
    /\ searchHits = None
    /\ searchPrev = None
    /\ searchCalls = 0
    /\ searchPanic = FALSE

\* Index::search(query, k)
\* Index::search(query, k); a panic in extract_excerpt unwinds out of the
\* call, which then returns nothing
Search ==
    /\ searchCalls < MaxSearchCalls
    /\ ~searchPanic
    /\ searchCalls' = searchCalls + 1
    /\ LET hits == collect_hits(searchFiles, to_lowercase(searchQuery)) IN
         IF \E i \in 1..Len(hits) : hits[i].excerpt = None
         THEN /\ searchPanic' = TRUE
              /\ UNCHANGED <<searchHits, searchPrev>>
         ELSE /\ searchPanic' = FALSE
              /\ \E sorted \in SortOutcomes(Unwrapped(hits)) :
                   searchHits' = Some(truncate(sorted, searchK))
              /\ searchPrev' = searchHits
    /\ UNCHANGED <<pipeVars, fanVars, walkVars, regVars, fnVars, srvVars, pubVars,
                   searchFiles, searchQuery, searchK>>

SearchNext == Search

\* ------------------------------------ the pure functions of the analyzer
\* the statements a text under extraction is made of; a `use` carries the parts
\* of its path as split("::") cuts them, and whether the path has a `{`
Statements ==
    { Stmt("import_from", <<"./foo">>),
      Stmt("export_from", <<"bar">>),
      Stmt("require", <<"baz">>),
      Stmt("py_import", <<"os">>),
      Stmt("go_import", <<"fmt">>),
      Stmt("other", <<"x">>),
      [kind |-> "use", toks |-> <<"foo", "bar", "Baz">>, brace |-> FALSE],
      [kind |-> "use", toks |-> <<"baz">>, brace |-> FALSE],
      [kind |-> "use", toks |-> <<"{foo, bar}">>, brace |-> TRUE],
      [kind |-> "use", toks |-> <<"", "std", "fmt">>, brace |-> FALSE] }

\* the language tags detect_language gives
Languages == {"ts", "js", "py", "go", "rs", "java"}

ExtractInit ==
    /\ fnInput \in [content : SeqsUpTo(Statements, MaxStmts), language : Languages]
    /\ fnOutput = None

\* the `match language` of analyze_file applied to a text
Extract ==
    /\ fnOutput = None
    /\ fnOutput' = Some(extract_dependencies(fnInput.content, fnInput.language))
    /\ UNCHANGED <<pipeVars, fanVars, walkVars, regVars, searchVars, srvVars, pubVars, fnInput>>

ExtractNext == Extract

\* ---- is_module_file applied to a path
\* the directories a classified file may lie in, outermost first
ParentDirs ==
    { <<>>, <<"src">>, <<"lib">>, <<"cmd">>, <<"pkg">>, <<"other">>,
      <<"a", "src">>, <<"src", "a">>, <<"lib", "cmd">> }

FileNames ==
    { <<"index", ".", "ts">>, <<"index", ".", "js">>, <<"index", ".", "tsx">>,
      <<"index", ".", "jsx">>, <<"util", ".", "ts">>, <<"__init__", ".", "py">>,
      <<"foo", ".", "py">>, <<"main", ".", "go">>, <<"foo", ".", "go">>,
      <<"lib", ".", "rs">>, <<"util", ".", "rs">>, <<"A", ".", "java">> }

RECURSIVE PathOf(_, _)
\* the path of the file `name` below the directories `dirs`
PathOf(dirs, name) ==
    IF Len(dirs) = 0 THEN name
    ELSE <<dirs[1], "/">> \o PathOf(Tail(dirs), name)

ClassifyInit ==
    /\ fnInput \in [dirs : ParentDirs, name : FileNames, language : Languages \cup {"tsx"}]
    /\ fnOutput = None

\* one call of is_module_file
Classify ==
    /\ fnOutput = None
    /\ fnOutput' = Some(is_module_file(PathOf(fnInput.dirs, fnInput.name), fnInput.language))
    /\ UNCHANGED <<pipeVars, fanVars, walkVars, regVars, searchVars, srvVars, pubVars, fnInput>>

ClassifyNext == Classify

\* ---- infer_entrypoints applied to a tree and the configured hints
EntryUniverse ==
    { File(<<"main", ".", "ts">>, 10, TRUE, TRUE, JsText),
      File(<<"index", ".", "js">>, 10, TRUE, TRUE, JsText),
      Dir(<<"main", ".", "py">>),
      File(<<"apps", "/", "a", "/", "src", "/", "main", ".", "ts">>, 10, TRUE, TRUE, JsText),
      File(<<"lib", "/", "index", ".", "ts">>, 10, TRUE, TRUE, JsText),
      Dir(<<"docs", "/", "index", ".", "ts">>),
      File(<<"cmd", "/", "x", "/", "main", ".", "go">>, 10, TRUE, TRUE, GoText),
      File(<<"docs", "/", "guide", ".", "md">>, 10, TRUE, TRUE, <<>>),
      WalkError }

HintUniverse ==
    { <<"docs", "/", "guide", ".", "md">>, <<"missing", ".", "txt">>,
      <<"cmd", "/", "x", "/", "main", ".", "go">> }

EntrypointsInit ==
    /\ fnInput \in
         [tree : {t \in SeqsUpTo(EntryUniverse, MaxEntries) :
                    \A i, j \in 1..Len(t) : i # j => t[i] # t[j]},
          hints : SeqsUpTo(HintUniverse, MaxHints)]
    /\ fnOutput = None

\* one call of infer_entrypoints
InferEntrypoints ==
    /\ fnOutput = None
    /\ fnOutput' = Some(infer_entrypoints(fnInput.tree,
                          [exclude |-> <<>>, max_file_kb |-> 1,
                           infer_entrypoints |-> fnInput.hints]))
    /\ UNCHANGED <<pipeVars, fanVars, walkVars, regVars, searchVars, srvVars, pubVars, fnInput>>

EntrypointsNext == InferEntrypoints

\* ------------------------------------------------------ McpServer::serve
\* the JSON-RPC error codes the server answers with
ParseErrorCode == -32700
InternalErrorCode == -32603

\* what the reader gets from stdin: a line that does not parse as a request, a
\* request whose tool returns Ok, one whose tool returns Err, a search request
\* that makes Index::search panic in extract_excerpt, or a read error
Lines == {"unparsable", "tool_ok", "tool_err", "tool_panics", "read_error"}

\* a JsonRpcResponse written for the line at place `of`; code 0 is a result
Response(of, code) == [of |-> of, code |-> code]

\* the response handle_request builds for a line
ResponseTo(of, line) ==
    CASE line = "unparsable" -> Response(of, ParseErrorCode)
      [] line = "tool_err" -> Response(of, InternalErrorCode)
      [] OTHER -> Response(of, 0)

SrvInit ==
    /\ stdin \in SeqsUpTo(Lines, MaxLines)
    /\ stdout_lines = <<>>
    /\ srvPc = "reading"
    /\ srvRead = 0
    /\ srvLine = None

\* `stdin_reader.next_line()` and the match on its result: a line goes to
\* handle_request, end of input and a read error both break out of the loop
ReadLine ==
    /\ srvPc = "reading"
    /\ IF srvRead = Len(stdin)
       THEN /\ srvPc' = "ended"
            /\ UNCHANGED <<srvRead, srvLine>>
       ELSE /\ srvRead' = srvRead + 1
            /\ IF stdin[srvRead + 1] = "read_error"
               THEN srvPc' = "ended" /\ srvLine' = srvLine
               ELSE srvPc' = "handling" /\ srvLine' = Some(stdin[srvRead + 1])
    /\ UNCHANGED <<pipeVars, fanVars, walkVars, regVars, searchVars, fnVars, pubVars,
                   stdin, stdout_lines>>

\* handle_request and what serve does with its result: the response is
\* written; when that write fails serve writes an internal error, and when
\* that fails too serve returns the error; a panic in the tool unwinds serve
HandleRequest ==
    /\ srvPc = "handling"
    /\ \E first_write, second_write \in {"ok", "fails"} :
         IF srvLine[1] = "tool_panics"
         THEN /\ first_write = "ok" /\ second_write = "ok"
              /\ srvPc' = "panicked"
              /\ stdout_lines' = stdout_lines
         ELSE IF first_write = "ok"
         THEN /\ second_write = "ok"
              /\ stdout_lines' = Append(stdout_lines, ResponseTo(srvRead, srvLine[1]))
              /\ srvPc' = "reading"
         ELSE IF second_write = "ok"
         THEN /\ stdout_lines' = Append(stdout_lines, Response(srvRead, InternalErrorCode))
              /\ srvPc' = "reading"
         ELSE /\ stdout_lines' = stdout_lines
              /\ srvPc' = "failed"
    /\ srvLine' = None
    /\ UNCHANGED <<pipeVars, fanVars, walkVars, regVars, searchVars, fnVars, pubVars,
                   stdin, srvRead>>

SrvNext ==
    \/ ReadLine
    \/ HandleRequest

\* ------------------------------------------- Publisher::commit_to_branch
BranchNames == {"main", "gh-pages", "docs"}

\* a git command that was run, the branch checked out when it had finished,
\* and whether it exited with status 0
GitRun(op, checked_out, success) == [op |-> op, head |-> checked_out, success |-> success]

\* git checkout -b <name>: creates the branch and switches to it, or exits
\* non-zero and changes nothing when the branch exists
CheckoutNewSucceeds(existing, name) == name \notin existing

\* git checkout <name>: switches to the branch when it exists
CheckoutSucceeds(existing, name) == name \in existing

PubInit ==
    /\ branch \in {"gh-pages", "docs"}
    /\ branches \in SUBSET BranchNames
    /\ head \in branches
    /\ pubPc = "checkout_new"
    /\ pubLog = <<>>
    /\ pubResult = Pending

\* `Command::new("git").arg("checkout").arg("-b").arg(branch)...output()`: the
\* result is Err only when git could not be started; the exit status is not read
CheckoutNew ==
    /\ pubPc = "checkout_new"
    /\ \E started \in BOOLEAN :
         IF started
         THEN LET ok == CheckoutNewSucceeds(branches, branch) IN
                /\ branches' = IF ok THEN branches \cup {branch} ELSE branches
                /\ head' = IF ok THEN branch ELSE head
                /\ pubLog' = Append(pubLog, GitRun("checkout -b", head', ok))
                /\ pubPc' = "rm"
         ELSE /\ pubPc' = "checkout"
              /\ UNCHANGED <<branches, head, pubLog>>
    /\ UNCHANGED <<pipeVars, fanVars, walkVars, regVars, searchVars, fnVars, srvVars,
                   branch, pubResult>>

\* the `if let Err(_) = output` arm: git checkout <branch>, `?` on its start
\* and an error unless it exits with status 0
CheckoutExisting ==
    /\ pubPc = "checkout"
    /\ \E started \in BOOLEAN :
         IF started
         THEN LET ok == CheckoutSucceeds(branches, branch) IN
                /\ head' = IF ok THEN branch ELSE head
                /\ pubLog' = Append(pubLog, GitRun("checkout", head', ok))
                /\ pubPc' = IF ok THEN "rm" ELSE "done"
                /\ pubResult' = IF ok THEN pubResult ELSE Failure("git", <<"checkout">>)
         ELSE /\ pubPc' = "done"
              /\ pubResult' = Failure("io", <<"checkout">>)
              /\ UNCHANGED <<head, pubLog>>
    /\ UNCHANGED <<pipeVars, fanVars, walkVars, regVars, searchVars, fnVars, srvVars,
                   branch, branches>>

\* git rm -rf .: `?` on its start, the exit status is not read
RemoveTracked ==
    /\ pubPc = "rm"
    /\ \E started \in BOOLEAN :
         IF started
         THEN /\ pubLog' = Append(pubLog, GitRun("rm", head, TRUE))
              /\ pubPc' = "copy"
              /\ pubResult' = pubResult
         ELSE /\ pubLog' = pubLog
              /\ pubPc' = "done"
              /\ pubResult' = Failure("io", <<"rm">>)
    /\ UNCHANGED <<pipeVars, fanVars, walkVars, regVars, searchVars, fnVars, srvVars,
                   branch, branches, head>>

\* copy_directory(content_dir, repo_path)?
CopyContent ==
    /\ pubPc = "copy"
    /\ \E io_ok \in BOOLEAN :
         IF io_ok
         THEN pubPc' = "add" /\ pubResult' = pubResult
         ELSE pubPc' = "done" /\ pubResult' = Failure("io", <<"copy">>)
    /\ UNCHANGED <<pipeVars, fanVars, walkVars, regVars, searchVars, fnVars, srvVars,
                   branch, branches, head, pubLog>>

\* git add .: `?` on its start, the exit status is not read
AddAll ==
    /\ pubPc = "add"
    /\ \E started \in BOOLEAN :
         IF started
         THEN /\ pubLog' = Append(pubLog, GitRun("add", head, TRUE))
              /\ pubPc' = "commit"
              /\ pubResult' = pubResult
         ELSE /\ pubLog' = pubLog
              /\ pubPc' = "done"
              /\ pubResult' = Failure("io", <<"add">>)
    /\ UNCHANGED <<pipeVars, fanVars, walkVars, regVars, searchVars, fnVars, srvVars,
                   branch, branches, head>>

\* git commit -m "Update GitHub Pages": `?` on its start, the exit status is not read
Commit ==
    /\ pubPc = "commit"
    /\ \E started \in BOOLEAN :
         IF started
         THEN /\ pubLog' = Append(pubLog, GitRun("commit", head, TRUE))
              /\ pubPc' = "done"
              /\ pubResult' = [status |-> "ok"]
         ELSE /\ pubLog' = pubLog
              /\ pubPc' = "done"
              /\ pubResult' = Failure("io", <<"commit">>)
    /\ UNCHANGED <<pipeVars, fanVars, walkVars, regVars, searchVars, fnVars, srvVars,
                   branch, branches, head>>

PubNext ==
    \/ CheckoutNew
    \/ CheckoutExisting
    \/ RemoveTracked
    \/ CopyContent
    \/ AddAll
    \/ Commit

FnIdle ==
    /\ fnInput = None
    /\ fnOutput = None

SrvIdle ==
    /\ stdin = <<>>
    /\ stdout_lines = <<>>
    /\ srvPc = "ended"
    /\ srvRead = 0
    /\ srvLine = None

PubIdle ==
    /\ branch = "gh-pages"
    /\ branches = {}
    /\ head = "main"
    /\ pubPc = "done"
    /\ pubLog = <<>>
    /\ pubResult = Pending

\* ------------------------------------------------------- specifications
vars == <<pipeVars, fanVars, walkVars, regVars, searchVars, fnVars, srvVars, pubVars>>

Init == PipeInit /\ FanIdle /\ WalkIdle /\ RegIdle /\ SearchIdle /\ FnIdle /\ SrvIdle /\ PubIdle

Spec == Init /\ [][Next]_vars

InitLongLists ==
    PipeInitLongLists /\ FanIdle /\ WalkIdle /\ RegIdle /\ SearchIdle /\ FnIdle /\ SrvIdle /\ PubIdle

SpecLongLists == InitLongLists /\ [][Next]_vars

InitFanout == PipeIdle /\ FanInit /\ WalkIdle /\ RegIdle /\ SearchIdle /\ FnIdle /\ SrvIdle /\ PubIdle

SpecFanout == InitFanout /\ [][FanNext]_vars

\* the same block under the scheduling tokio gives: the spawning loop and the
\* collecting loop run on, a waiting task is woken when a permit is free, and
\* a task body that terminates is run to its end
FanFairness ==
    /\ WF_vars(FanSpawn)
    /\ WF_vars(FanSpawned)
    /\ WF_vars(FanAcquire)
    /\ WF_vars(FanTaskEnds)
    /\ WF_vars(FanCollected)

SpecFanoutLive == InitFanout /\ [][FanNext]_vars /\ FanFairness

InitWalk == PipeIdle /\ FanIdle /\ WalkInit /\ RegIdle /\ SearchIdle /\ FnIdle /\ SrvIdle /\ PubIdle

SpecWalk == InitWalk /\ [][WalkNext]_vars

InitRegistry == PipeIdle /\ FanIdle /\ WalkIdle /\ RegInit /\ SearchIdle /\ FnIdle /\ SrvIdle /\ PubIdle

SpecRegistry == InitRegistry /\ [][RegNext]_vars

InitExtract ==
    PipeIdle /\ FanIdle /\ WalkIdle /\ RegIdle /\ SearchIdle /\ ExtractInit /\ SrvIdle /\ PubIdle

SpecExtract == InitExtract /\ [][ExtractNext]_vars

InitClassify ==
    PipeIdle /\ FanIdle /\ WalkIdle /\ RegIdle /\ SearchIdle /\ ClassifyInit /\ SrvIdle /\ PubIdle

SpecClassify == InitClassify /\ [][ClassifyNext]_vars

InitEntrypoints ==
    PipeIdle /\ FanIdle /\ WalkIdle /\ RegIdle /\ SearchIdle /\ EntrypointsInit /\ SrvIdle /\ PubIdle

SpecEntrypoints == InitEntrypoints /\ [][EntrypointsNext]_vars

InitServer ==
    PipeIdle /\ FanIdle /\ WalkIdle /\ RegIdle /\ SearchIdle /\ FnIdle /\ SrvInit /\ PubIdle

SpecServer == InitServer /\ [][SrvNext]_vars

InitPublish ==
    PipeIdle /\ FanIdle /\ WalkIdle /\ RegIdle /\ SearchIdle /\ FnIdle /\ SrvIdle /\ PubInit

SpecPublish == InitPublish /\ [][PubNext]_vars

InitSearch == PipeIdle /\ FanIdle /\ WalkIdle /\ RegIdle /\ SearchInit /\ FnIdle /\ SrvIdle /\ PubIdle

SpecSearch == InitSearch /\ [][SearchNext]_vars

\* ======================================================== pipeline claims
IsPrefix(s, t) == Len(s) <= Len(t) /\ \A k \in 1..Len(s) : s[k] = t[k]

\* the texts of the caller's sections, in the caller's order
TextsInSectionOrder ==
    [i \in 1..Len(sections) |-> SectionText(builder, index, sections[i])]

\* C1: the final document carries the sections in the caller's order whatever
\* order the tasks ended in: build_marp's marp_content grows as a prefix of the
\* section texts in `sections` order and slides.md holds exactly those texts in
\* that order; SUMMARY.md of build_wiki / build_mdbook_reveal links the chapter
\* files in `toc` order.
C1_SectionOrderIsCallerOrder ==
    /\ builder = "marp" =>
         /\ IsPrefix(marp_content, TextsInSectionOrder)
         /\ SlidesMd \in DOMAIN out_dir => out_dir[SlidesMd] = TextsInSectionOrder
    /\ (builder \in {"wiki", "reveal"} /\ SummaryMd \in DOMAIN out_dir) =>
         /\ Len(out_dir[SummaryMd]) = Len(sections)
         /\ \A i \in 1..Len(sections) :
              /\ out_dir[SummaryMd][i].file = FileOf(sections[i])
              /\ out_dir[SummaryMd][i].title = get_section_name(sections[i])

\* slides.md is written from two different sections whose tasks ended in the
\* reverse of the caller's order
C1_Witness ==
    /\ builder = "marp"
    /\ SlidesMd \in DOMAIN out_dir
    /\ Len(sections) = 2
    /\ sections[1] # sections[2]
    /\ secDone = <<2, 1>>


\* position in the Index of the ModuleRecord a fragment was rendered from
ModulePos(fragment) ==
    CHOOSE k \in 1..Len(index.modules) :
        ModuleFragment(index, index.modules[k]) = fragment

FragmentsInIndexOrder(body) ==
    /\ \A a \in 1..Len(body) :
         \E k \in 1..Len(index.modules) : body[a] = ModuleFragment(index, index.modules[k])
    /\ \A a, b \in 1..Len(body) : a < b => ModulePos(body[a]) < ModulePos(body[b])

\* C2: the module fragments of modules.md (and of modules_content while it is
\* being collected) stand in the order of the ModuleRecords in the Index, for
\* every order in which the module tasks end.
C2_ModuleFragmentsInIndexOrder ==
    /\ FragmentsInIndexOrder(modules_content)
    /\ (builder = "wiki" /\ ModulesMd \in DOMAIN out_dir) =>
         FragmentsInIndexOrder(out_dir[ModulesMd].body)

\* modules.md holds both fragments although the module tasks ended in exactly
\* the reverse of the Index order
C2_Witness ==
    /\ builder = "wiki"
    /\ ModulesMd \in DOMAIN out_dir
    /\ Len(index.modules) = 2
    /\ Len(out_dir[ModulesMd].body) = 2
    /\ modDone = <<2, 1>>


\* the output files that carry section content
SectionOutputs == {FileOf(sec) : sec \in SectionNames} \cup {ModulesMd, SlidesMd}

SectionTaskFailed ==
    /\ result.status = "err"
    /\ result.kind \in {"err", "panic"}
    /\ result.at[1] = "section"

\* C4: once the run has returned the error of a failed ordinary section task, no
\* section output of the run (a section file, modules.md, slides.md) exists.
C4_NoPartialOutputOnSectionFailure ==
    SectionTaskFailed => DOMAIN out_dir \cap SectionOutputs = {}

RECURSIVE OkFragmentsFrom(_)
\* the fragments of the module tasks that ended Ok, in Index order
OkFragmentsFrom(j) ==
    IF j > Len(index.modules) THEN <<>>
    ELSE (IF modState[j] = "ok"
          THEN <<ModuleFragment(index, index.modules[j])>> ELSE <<>>)
         \o OkFragmentsFrom(j + 1)

\* C5: modules.md holds the fragment of every module whose task ended Ok, in
\* Index order, and of no other; and no run returns the error of a module task.
C5_FailedModuleIsOnlyOmitted ==
    /\ (builder = "wiki" /\ ModulesMd \in DOMAIN out_dir) =>
         out_dir[ModulesMd].body = OkFragmentsFrom(1)
    /\ result.status = "err" => result.at[1] # "module"

\* a run that ended Ok wrote modules.md with one module dropped and one kept
C5_Witness ==
    /\ builder = "wiki"
    /\ result.status = "ok"
    /\ ModulesMd \in DOMAIN out_dir
    /\ \E j \in DOMAIN modState : modState[j] \in {"err", "panic"}
    /\ \E j \in DOMAIN modState : modState[j] = "ok"
    /\ Len(out_dir[ModulesMd].body) = 1


\* C6: once the run has returned (Ok or Err), no task it dispatched is still
\* waiting or running.
C6_ReturnsOnlyAfterEveryTask ==
    result.status # "pending" =>
        /\ \A i \in DOMAIN secState : secState[i] \in Finished \cup {"unspawned"}
        /\ \A j \in DOMAIN modState : modState[j] \in Finished \cup {"unspawned"}

\* ========================================================= analyzer claims
\* the entries the walk has gone through
Walked == {tree[i] : i \in 1..walkPos}

\* the Index of a run that returned Ok
Returned == walkResult.status = "ok"

\* C7: in every Index returned by analyze_repo, Stats.files is the number of
\* FileRecords and Stats.modules is the number of ModuleRecords.
C7_StatsEqualCounts ==
    Returned =>
        /\ walkResult.index.stats.files = Len(walkResult.index.files)
        /\ walkResult.index.stats.modules = Len(walkResult.index.modules)

\* an Index over a tree with an accepted module file, an accepted plain file,
\* and a skipped or unreadable one
C7_Witness ==
    /\ Returned
    /\ Len(walkResult.index.files) = 2
    /\ Len(walkResult.index.modules) = 1
    /\ \E e \in Walked : e.kind = "file" /\ (TooLarge(e, config) \/ ~e.readable)

\* C8: in every Index returned by analyze_repo, every dependency token of every
\* FileRecord is a key of the DependencyTable.
C8_DependencyTokensAreKeys ==
    Returned =>
        \A i \in 1..Len(walkResult.index.files) :
            Range(walkResult.index.files[i].dependencies)
                \subseteq DOMAIN walkResult.index.dependencies

\* an Index with a module file and a plain file that both name dependencies
C8_Witness ==
    /\ Returned
    /\ \E i, j \in 1..Len(walkResult.index.files) :
         /\ walkResult.index.files[i].is_module
         /\ ~walkResult.index.files[j].is_module
         /\ Len(walkResult.index.files[i].dependencies) > 0
         /\ Len(walkResult.index.files[j].dependencies) > 0
         /\ Range(walkResult.index.files[j].dependencies)
              # Range(walkResult.index.files[i].dependencies)

\* the extensions of the supported table
SupportedExtensions ==
    {<<"ts">>, <<"tsx">>, <<"js">>, <<"jsx">>, <<"mjs">>, <<"cjs">>,
     <<"py">>, <<"go">>, <<"rs">>, <<"java">>}

Supported(path) == extension(path) # None /\ extension(path)[1] \in SupportedExtensions

\* the language the supported table gives an extension
LanguageOfExtension(ext) ==
    CASE ext = <<"tsx">> -> "ts"
      [] ext \in {<<"jsx">>, <<"mjs">>, <<"cjs">>} -> "js"
      [] OTHER -> ext[1]

\* C9: a file whose extension is not exactly one of the supported ones is not in
\* the file collection, is not counted in the stats, and brings no module, no
\* language and no dependency entry: all files and modules recorded have a
\* supported extension, the stats count only those, every language recorded is
\* that of a walked file with a supported extension, and every key of the
\* dependency table is a token of a recorded file.
C9_UnsupportedExtensionLeavesNoTrace ==
    /\ \A i \in 1..Len(files) : Supported(files[i].path)
    /\ \A i \in 1..Len(modules) : Supported(modules[i].path)
    /\ languages \subseteq
         {LanguageOfExtension(extension(e.path)[1]) :
            e \in {w \in Walked : w.kind = "file" /\ Supported(w.path)}}
    /\ DOMAIN dependencies
         \subseteq UNION {Range(files[i].dependencies) : i \in 1..Len(files)}
    /\ Returned =>
         /\ walkResult.index.stats.files
              = Cardinality({i \in 1..Len(files) : Supported(files[i].path)})
         /\ walkResult.index.stats.modules
              = Cardinality({i \in 1..Len(modules) : Supported(modules[i].path)})
         /\ walkResult.index.files = files
         /\ walkResult.index.modules = modules
         /\ walkResult.index.languages = languages
         /\ walkResult.index.dependencies = dependencies

\* an Index over a tree holding a readable, small file with an upper-case
\* extension that names dependencies, and nothing else that could bring them
C9_Witness ==
    /\ Returned
    /\ \E e \in Walked :
         /\ e.kind = "file"
         /\ extension(e.path) = Some(<<"TS">>)
         /\ e.readable /\ ~TooLarge(e, config)
         /\ ~should_exclude(e.path, config.exclude)
         /\ Len(e.content) > 0
    /\ \E e \in Walked : e.kind = "file" /\ extension(e.path) = None
    /\ walkResult.index.files = <<>>
    /\ walkResult.index.languages = {}

\* C10: a file whose size in bytes is greater than max_file_kb * 1024 is not in
\* the file collection, and the walk goes on past it without failing.
C10_OversizedFileNeverIndexed ==
    \A k \in 1..walkPos :
        (tree[k].kind = "file" /\ tree[k].size > config.max_file_kb * 1024) =>
            /\ Returned =>
                 \A i \in 1..Len(walkResult.index.files) :
                     walkResult.index.files[i].path # tree[k].path
            /\ walkResult.status = "err" => walkResult.at[2] # k

\* the files of the tree that nothing entitles the walk to leave out
Eligible(e) ==
    /\ e.kind = "file"
    /\ ~should_exclude(e.path, config.exclude)
    /\ e.meta_ok /\ e.readable
    /\ ~TooLarge(e, config)
    /\ detect_language(e.path) # None

\* C11: under a root that can be enumerated, analyze_repo never returns an
\* error (the only fatal failure is that of the root itself): an error on one
\* file or sub-entry only skips it, and the Index returned holds every other
\* eligible file.
C11_OnlyRootFailureIsFatal ==
    /\ walkResult.status = "err" => walkResult.at[1] = "root"
    /\ Returned =>
         \A k \in 1..Len(tree) :
             Eligible(tree[k]) =>
                 \E i \in 1..Len(walkResult.index.files) :
                     walkResult.index.files[i].path = tree[k].path

\* C12: in every Index returned by analyze_repo the language set, and the
\* language list of the stats, is the set of the languages of its FileRecords.
C12_LanguagesAreThoseOfFiles ==
    Returned =>
        /\ walkResult.index.languages
             = {walkResult.index.files[i].language :
                  i \in 1..Len(walkResult.index.files)}
        /\ walkResult.index.stats.languages = walkResult.index.languages

RECURSIVE ModuleRecordsOf(_)
\* one ModuleRecord for each FileRecord with is_module, in the order of the files
ModuleRecordsOf(fs) ==
    IF Len(fs) = 0 THEN <<>>
    ELSE (IF fs[1].is_module
          THEN <<[path |-> fs[1].path, name |-> fs[1].name,
                  language |-> fs[1].language,
                  dependencies |-> fs[1].dependencies]>>
          ELSE <<>>)
         \o ModuleRecordsOf(Tail(fs))

\* C13: in every Index returned by analyze_repo the module collection is the
\* subsequence of the file collection with is_module: one ModuleRecord for each
\* such FileRecord, in the same order, with its path, name, language and
\* dependencies, and none for any other file.
C13_ModulesAreTheModuleFiles ==
    Returned => walkResult.index.modules = ModuleRecordsOf(walkResult.index.files)

\* an Index of a plain file between two module files that name dependencies
C13_Witness ==
    /\ Returned
    /\ Len(walkResult.index.files) = 3
    /\ walkResult.index.files[1].is_module
    /\ ~walkResult.index.files[2].is_module
    /\ walkResult.index.files[3].is_module
    /\ Len(walkResult.index.files[1].dependencies) > 0
    /\ walkResult.index.files[1].language # walkResult.index.files[3].language

RECURSIVE GlobMatches(_, _)
\* the restricted glob of the specification, anchored at both ends: `**` takes
\* any sequence of atoms, separators included, `*` takes any run of atoms other
\* than the separator, every other atom takes itself
GlobMatches(p, text) ==
    IF Len(p) = 0 THEN Len(text) = 0
    ELSE IF Len(p) >= 2 /\ p[1] = "*" /\ p[2] = "*"
         THEN \/ GlobMatches(SubSeq(p, 3, Len(p)), text)
              \/ Len(text) > 0 /\ GlobMatches(p, Tail(text))
    ELSE IF p[1] = "*"
         THEN \/ GlobMatches(Tail(p), text)
              \/ Len(text) > 0 /\ text[1] # "/" /\ GlobMatches(p, Tail(text))
    ELSE Len(text) > 0 /\ text[1] = p[1] /\ GlobMatches(Tail(p), Tail(text))

\* the paths of the files the walk has put to should_exclude
WalkedPaths == {e.path : e \in {w \in Walked : w.kind = "file"}}

\* C14: should_exclude(path, patterns) is true exactly when the whole path
\* matches one of the patterns read as globs (`**` any sequence of segments, `*`
\* any run of non-separator characters); so `**/node_modules/**` excludes every
\* path with a node_modules component.
C14_ExcludeIsGlobMatch ==
    \A path \in WalkedPaths :
        should_exclude(path, config.exclude)
            <=> \E i \in 1..Len(config.exclude) : GlobMatches(config.exclude[i], path)

\* the patterns of a list that compile
WellFormed(patterns) == SelectSeq(patterns, LAMBDA p : Compiles(regex_pattern(p)))

\* C15: a pattern that does not compile excludes nothing and raises no error:
\* should_exclude answers for a list as it does for the list without its
\* malformed patterns, and the walk over such a list indexes what it would
\* index without them.
C15_MalformedPatternExcludesNothing ==
    /\ \A path \in WalkedPaths :
           should_exclude(path, config.exclude)
               = should_exclude(path, WellFormed(config.exclude))
    /\ \A i \in 1..Len(files) : ~should_exclude(files[i].path, WellFormed(config.exclude))
    /\ Returned =>
         \A k \in 1..Len(tree) :
             (Eligible(tree[k]) /\ ~should_exclude(tree[k].path, WellFormed(config.exclude)))
                 => \E i \in 1..Len(files) : files[i].path = tree[k].path

\* a returned walk under a list with a malformed pattern, over a file the
\* well-formed pattern of the list excludes and a file that is indexed
C15_Witness ==
    /\ Returned
    /\ WellFormed(config.exclude) # config.exclude
    /\ \E path \in WalkedPaths : should_exclude(path, config.exclude)
    /\ Len(walkResult.index.files) > 0

\* ========================================================= registry claims
\* C16: every build in the registry has a key of its own: each index_id that
\* index_repo has returned still retrieves the Index built by the call that
\* returned it, and no build has replaced another.
C16_ReturnedIdRetrievesItsBuild ==
    \A n \in 1..Len(returned) :
        /\ returned[n].index_id \in DOMAIN indexes
        /\ indexes[returned[n].index_id] = returned[n].index

\* =========================================================== search claims
\* the place in the Index of the file a hit is for
HitPlace(hit) == hit.path[2]

SameScore(a, b) == a.num * b.den = b.num * a.den

\* C17: search(query, k) returns at most k hits, in non-increasing order of
\* score, hits of equal score in the order of their files in the Index; with
\* k = 0 it returns nothing.
C17_SearchHitsBoundedAndOrdered ==
    searchHits # None =>
        LET hs == searchHits[1] IN
          /\ Len(hs) <= searchK
          /\ \A i, j \in 1..Len(hs) :
                 i < j =>
                   /\ hs[i].score.num * hs[j].score.den >= hs[j].score.num * hs[i].score.den
                   /\ SameScore(hs[i].score, hs[j].score) => HitPlace(hs[i]) < HitPlace(hs[j])
          /\ searchK = 0 => hs = <<>>

\* three files match, the first scores least and the other two the same, and
\* k = 2 cuts the first off
C17_Witness ==
    /\ searchHits # None
    /\ searchK = 2
    /\ Len(collect_hits(searchFiles, to_lowercase(searchQuery))) = 3
    /\ Len(searchHits[1]) = 2
    /\ HitPlace(searchHits[1][1]) = 2
    /\ HitPlace(searchHits[1][2]) = 3
    /\ SameScore(searchHits[1][1].score, searchHits[1][2].score)
    /\ searchHits[1][1].score.num > 0

Folded(text) ==
    [i \in 1..Len(text) |->
        IF text[i] = "A" THEN "a" ELSE IF text[i] = "B" THEN "b" ELSE text[i]]

\* `pat` is a contiguous part of `text`
IsSubstring(pat, text) ==
    \E start \in 0..(Len(text) - Len(pat)) :
        SubSeq(text, start + 1, start + Len(pat)) = pat

\* the places of the files that hold content whose folded text has the folded
\* query as a substring
Matching ==
    {i \in 1..Len(searchFiles) :
        /\ searchFiles[i].content # None
        /\ IsSubstring(Folded(searchQuery), Folded(searchFiles[i].content[1]))}

\* C19: before the cut to k, a file is a hit exactly when it has content and
\* the lower-cased content contains the whole lower-cased query: the hits
\* returned are for matching files only, one each, and they are all of them
\* unless k cut some off.
C19_HitsAreTheMatchingFiles ==
    searchHits # None =>
        LET places == {HitPlace(searchHits[1][n]) : n \in 1..Len(searchHits[1])} IN
          /\ places \subseteq Matching
          /\ Cardinality(places) = Len(searchHits[1])
          /\ Len(searchHits[1]) = Min(searchK, Cardinality(Matching))
          /\ searchK >= Len(searchFiles) => places = Matching

\* a query in capitals, a file that matches it past its first letter, a file
\* with content that does not match, a file without content, and no cut
C19_Witness ==
    /\ searchHits # None
    /\ searchQuery = <<"A", "B">>
    /\ Len(searchFiles) = 3
    /\ searchK = 3
    /\ Len(searchHits[1]) = 1
    /\ \E i \in Matching : ~starts_with(to_lowercase(searchFiles[i].content[1]), <<"a", "b">>)
    /\ \E i \in 1..Len(searchFiles) : searchFiles[i].content = None

Chosen(content, Test(_)) == SelectSeq(content, Test)

IsJsDependency(stmt) == stmt.kind \in {"import_from", "export_from", "require"}

\* C22: for ts/js text the extractor returns the module token of every
\* import-from, export-from and require occurrence, duplicates kept, in the
\* order of the occurrences in the text, however imports and requires alternate.
C22_JsDependenciesInTextOrder ==
    (fnOutput # None /\ fnInput.language \in {"ts", "js"}) =>
        LET found == Chosen(fnInput.content, IsJsDependency) IN
          fnOutput[1] = [i \in 1..Len(found) |-> found[i].toks[1]]

IsQualifiedUse(stmt) == stmt.kind = "use" /\ (Len(stmt.toks) >= 2 \/ stmt.brace)

InnermostDir(dirs) == IF Len(dirs) = 0 THEN "" ELSE dirs[Len(dirs)]

\* the rule table of the specification
ModuleRule(dirs, name, language) ==
    CASE language \in {"ts", "js"} ->
           \/ name \in {<<"index", ".", e>> : e \in {"ts", "js", "tsx", "jsx"}}
           \/ InnermostDir(dirs) \in {"src", "lib"}
      [] language = "py" ->
           name = <<"__init__", ".", "py">> \/ InnermostDir(dirs) \in {"src", "lib"}
      [] language = "go" -> InnermostDir(dirs) \in {"cmd", "pkg"}
      [] language = "rs" -> name = <<"lib", ".", "rs">> \/ InnermostDir(dirs) = "src"
      [] OTHER -> FALSE

ExistingPaths(t) == {t[i].path : i \in {j \in 1..Len(t) : t[j].kind # "error"}}

\* the regular files of a tree named main.ts or index.ts
NamedEntryFiles(t) ==
    {t[i].path : i \in {j \in 1..Len(t) :
        /\ t[j].kind = "file"
        /\ file_name(t[j].path) \in {<<"main", ".", "ts">>, <<"index", ".", "ts">>}}}

ExpectedEntrypoints(t, hints) ==
    ({Join(h) : h \in Range(hints)} \cap ExistingPaths(t))
    \cup ({Join(c) : c \in Range(EntrypointCandidates)} \cap ExistingPaths(t))
    \cup NamedEntryFiles(t)

MatchingFiles ==
    {i \in 1..Len(searchFiles) :
       /\ searchFiles[i].content # None
       /\ contains(to_lowercase(searchFiles[i].content[1]), to_lowercase(searchQuery))}

\* C26: for every content and query of a hit the excerpt window is a valid
\* slice of the original content (0 <= start <= end <= length, cut between
\* characters), holds the first case-insensitive match, reaches at most 50
\* before the match start and 50 after the match end, and computing it never
\* fails.
C26_ExcerptWindowIsValidSlice ==
    searchCalls > 0 =>
      /\ ~searchPanic
      /\ \A i \in MatchingFiles :
           LET content == searchFiles[i].content[1]
               query == to_lowercase(searchQuery)
               pos == find(to_lowercase(content), query)[1]
               w == ExcerptWindow(content, query, ExcerptMaxLen, pos) IN
             /\ 0 <= w.start /\ w.start <= w.end /\ w.end <= ByteLen(content)
             /\ is_char_boundary(content, w.start)
             /\ is_char_boundary(content, w.end)
             /\ w.start <= pos /\ pos + ByteLen(query) <= w.end
             /\ pos - w.start <= ExcerptMaxLen \div 2
             /\ w.end - (pos + ByteLen(query)) <= ExcerptMaxLen \div 2

\* ================================================ section failure claims
\* the section tasks that have failed
FailedSections == {i \in 1..Len(sections) : secState[i] \in {"err", "panic"}}

\* the failed section that comes first in the caller's list
FirstFailedSection == CHOOSE i \in FailedSections : \A j \in FailedSections : i <= j

Answers(response, of, line) ==
    /\ response.of = of
    /\ response.code = (CASE line = "unparsable" -> -32700
                          [] line = "tool_err" -> -32603
                          [] OTHER -> 0)

\* the lines handed to handle_request so far
LinesTaken == {i \in 1..srvRead : stdin[i] # "read_error"}

\* C21: requests are handled one at a time in arrival order: every line taken
\* from the input has exactly one response line, written before the next line
\* is read, and a failed request does not stop the serving loop.
C21_OneResponsePerLineInOrder ==
    /\ srvPc \notin {"failed", "panicked"}
    /\ srvPc # "handling" =>
         /\ Len(stdout_lines) = Cardinality(LinesTaken)
         /\ \A i \in LinesTaken : Answers(stdout_lines[i], i, stdin[i])
    /\ srvPc = "handling" => Len(stdout_lines) = srvRead - 1

\* ====================================================== publisher claims
\* the target branch was there before commit_to_branch ran: no `checkout -b`
\* created it
TargetBranchExisted ==
    /\ branch \in branches
    /\ \A i \in 1..Len(pubLog) : ~(pubLog[i].op = "checkout -b" /\ pubLog[i].success)

\* C30: when the target branch already exists, commit_to_branch has it checked
\* out before it removes the tracked files and commits: no removal and no
\* commit runs while another branch is checked out.
C30_RemoveAndCommitOnTargetBranch ==
    TargetBranchExisted =>
        \A i \in 1..Len(pubLog) :
            pubLog[i].op \in {"rm", "commit"} => pubLog[i].head = branch

\* ========================================================= fan-out claims
\* C3: at any moment at most ModuleSemaphorePermits (50) module tasks hold a
\* permit, that is, are inside their generation body, however many
\* ModuleRecords the Index has.
C3_PermitHoldersWithinCap == fanRunning <= ModuleSemaphorePermits

\* all 50 permits are out and a further spawned task is kept waiting
C3_Witness ==
    /\ fanModules > ModuleSemaphorePermits
    /\ fanRunning = ModuleSemaphorePermits
    /\ fanWaiting > 0

\* C27: the module tasks that have been dispatched and have not yet ended,
\* each holding its own copy of the Index, never number more than the cap,
\* however many modules the Index has.
C27_DispatchedNotEndedWithinCap ==
    fanSpawned - fanEnded <= ModuleSemaphorePermits

\* a task stays spawned, a task that took a permit never waits again, a task
\* that ended stays ended
FanTasksOnlyAdvance ==
    /\ fanSpawned' >= fanSpawned
    /\ fanRunning' + fanEnded' >= fanRunning + fanEnded
    /\ fanEnded' >= fanEnded

\* C28: when every task body terminates the module block terminates for any
\* number of modules, more than the cap included: every spawned task gets a
\* permit and ends, every permit is back in the semaphore once its task has
\* ended, whichever way it ended, and no task goes back to an earlier stage.
C28_FanoutTerminatesAndReturnsPermits ==
    /\ <>(fanPc = "collected" /\ fanEnded = fanModules /\ fanWaiting = 0)
    /\ [](fanPermits + fanRunning = ModuleSemaphorePermits)
    /\ [][FanTasksOnlyAdvance]_vars

\* a block with more modules than permits has been collected, all permits back
C28_Witness ==
    /\ fanModules > ModuleSemaphorePermits
    /\ fanPc = "collected"
    /\ fanEnded = fanModules
    /\ fanPermits = ModuleSemaphorePermits

====
